---- MODULE Spec2Model ----
(***************************************************************************)
(* Model of the presentation generators of paris26/Alz_The_Batch_Writing:  *)
(*   generate_charts.py        four matplotlib charts -> generated_charts/ *)
(*   build_presentation.py     the 32-slide deck (python-pptx)             *)
(*   create_presentation_v2.py four charts, then the 24-slide deck         *)
(* The state is the file system the scripts read and write (image assets,  *)
(* chart files, saved decks) and the running script's memory (position in  *)
(* its main routine, the Presentation object, main()'s locals, what it     *)
(* printed).  One step is one call of the main routine: a chart function,  *)
(* one slide (a slide_NN function of v2, a slide block of                  *)
(* build_presentation), prs.save, or the closing prints.  Library calls    *)
(* may raise: the place where the library raises is an input of the step.  *)
(* A print of U+2713 raises on a stdout that cannot encode it: the         *)
(* encoding of stdout is an input of the run.                              *)
(* Lengths are EMU (914400 per inch), as python-pptx's Inches() gives      *)
(* them; None for a length is 0 (the code tests "if width:").              *)
(***************************************************************************)
EXTENDS Integers, Sequences, FiniteSets, TLC

\* ------------------------------------------------------------------ bounds
\* Scripts run one after another in one session.
MaxRuns == 2
\* Image assets absent from the disk (besides the cases all present / all absent).
MaxMissing == 1
\* Calls of chart functions made by one process, when they are called in any order.
MaxCalls == 3

\* ------------------------------------------------------------------- paths
\* A path is <<directory, file name>>; a relative file name has directory "".
os_path_join(dir, name) == <<dir, name>>
os_path_isabs(p) == p[1] # ""

REPO == "/repo"
BASE == "/repo/Presentation "
IMG == "/repo/images"
CHARTS == "/repo/Presentation /generated_charts"
OUTPUT == os_path_join(BASE, "AI_Alzheimer_Thesis_Presentation.pptx")
IMG_DIR == "/repo/images"
ALZ_DIR == "/home/paris/Code/AlzTheBatch"
CHART_DIR == "/repo/Presentation /generated_charts"
v2_OUTPUT == os_path_join(BASE, "AI_Alzheimer_Thesis_Presentation_v2.pptx")
OUTPUT_DIR == "/repo/Presentation /generated_charts"

\* img_path joining the name to the script's own directory (C12 depends on IMG).
img_path_in_base(filename) == os_path_join(BASE, filename[2])
img_path(filename) == os_path_join(IMG, filename[2])
\* chart_path looking next to the script instead of in generated_charts/ (C14
\* depends on CHARTS).
chart_path_in_base(filename) == os_path_join(BASE, filename)
chart_path(filename) == os_path_join(CHARTS, filename)

\* ------------------------------------------------------------------ colours
DARK_BG == "0D1117"
LIGHT_BG == "F7F5F0"
COPPER == "C17F3A"
CITE_GRAY == "8B8680"
CITE_BAR_DARK == "0A0D12"
CITE_BAR_LIGHT == "EDEBE6"
CITATION_C == "8B8680"

\* --------------------------------------------------------------- dimensions
\* pptx.util: Inches(x) = int(x * 914400), Pt(n) = int(n * 12700).  The product
\* is a floating-point one: where x * 914400 is a whole number the double
\* nearest to x can bring the product just under it, and int() then gives one
\* EMU less than the exact value.  InchesShort lists the lengths, in
\* thousandths of an inch, at which that happens, among all lengths up to 14 in
\* written with at most three decimals (4.1, 2.05 and 8.2 are among them).
InchesShort ==
  {285, 565, 570, 1005, 1015, 1025, 1035, 1045, 1130, 1140, 2010, 2030, 2050,
   2070, 2090, 2135, 2155, 2175, 2195, 2215, 2260, 2280, 4015, 4020, 4055,
   4060, 4100, 4140, 4145, 4180, 4185, 4225, 4265, 4270, 4305, 4310, 4350,
   4390, 4395, 4430, 4435, 4475, 4515, 4520, 4555, 4560, 8030, 8040, 8075,
   8110, 8120, 8155, 8165, 8200, 8235, 8245, 8280, 8290, 8325, 8360, 8370,
   8405, 8415, 8450, 8485, 8495, 8530, 8540, 8575, 8610, 8620, 8655, 8665,
   8700, 8735, 8745, 8780, 8790, 8825, 8860, 8870, 8905, 8915, 8950, 8985,
   8995, 9030, 9040, 9075, 9110, 9120, 9155, 9165}
\* Inches(n/d), for d dividing 1000 (whole inches and the fraction apart: the
\* product stays below 2^31).
Inches(n, d) ==
  (n \div d) * 914400 + ((n % d) * 914400) \div d
    - (IF 1000 % d = 0 /\ n * (1000 \div d) \in InchesShort THEN 1 ELSE 0)
Pt(n) == n * 12700
SLIDE_W == Inches(13333, 1000)
SLIDE_H == Inches(75, 10)
v2_SLIDE_W == Inches(133, 10)
v2_SLIDE_H == Inches(75, 10)

\* ------------------------------------------------- the document (python-pptx)
\* A slide: its background fill, how many shapes it held when the background
\* was set (-1: never set), and its shapes in z-order (first is bottom-most).
\* by/ln of a shape: the helper call of the slide's code that added it.
NewSlide == [bg |-> "", bgAt |-> 0 - 1, shapes |-> <<>>]
Shape(kind, left, top, width, height, color, size, italic, image) ==
  [kind |-> kind, left |-> left, top |-> top, width |-> width, height |-> height,
   color |-> color, size |-> size, italic |-> italic, image |-> image,
   more |-> <<>>, by |-> "", ln |-> 0]
\* A text box's size, color and italic are those of its first paragraph ("", 0
\* and FALSE when nothing set them); more holds <<size, color, italic>> of each
\* further paragraph.
\* A line of a multi-paragraph helper: a plain string (dict FALSE), or a dict
\* with its own size and color (0 and "": key absent) and italic flag.
PlainLine == [dict |-> FALSE, size |-> 0, color |-> "", italic |-> FALSE]
Plain(n) == [i \in 1..n |-> PlainLine]
\* A text box with the paragraphs ps (<<size, color, italic>> each).
TextShape(left, top, width, height, ps) ==
  IF ps = <<>> THEN Shape("textbox", left, top, width, height, "", 0, FALSE, <<>>)
  ELSE [Shape("textbox", left, top, width, height, ps[1][2], ps[1][1], ps[1][3], <<>>)
          EXCEPT !.more = SubSeq(ps, 2, Len(ps))]

\* What a call gives back: the slide, the exception it raised ("" for none),
\* the lines it printed and its return value.
Returns(slide, ret) == [slide |-> slide, raised |-> "", out |-> <<>>, ret |-> ret]
Raises(slide, exc) == [slide |-> slide, raised |-> exc, out |-> <<>>, ret |-> "exception"]

\* Points of one call where the library may raise (f is the point that does):
\*   "lib"        a library call outside any try block
\*   "alignment"  build_presentation.add_textbox, the try of lines 66-69
\*   "spacing"    build_presentation.add_textbox, the try of lines 78-82
\*   "anchor"     create_presentation_v2 text helpers, the try around vertical_anchor
NoPoint == "none"

os_path_exists(path, files) == path \in files

\* slide.shapes.add_shape / add_textbox / add_picture
shapes_add(slide, shape) == [slide EXCEPT !.shapes = Append(@, shape)]
\* add_picture opens the image file: a missing file raises.
shapes_add_picture(slide, path, left, top, width, height, files, f) ==
  IF ~os_path_exists(path, files) THEN Raises(slide, "FileNotFoundError")
  ELSE IF f = "lib" THEN Raises(slide, "LibraryError")
  ELSE Returns(shapes_add(slide, Shape("picture", left, top, width, height, "", 0, FALSE, path)), "picture")

\* ----------------------------------------- build_presentation.py helpers
set_slide_bg(slide, color, f) ==
  IF f = "lib" THEN Raises(slide, "LibraryError")
  ELSE Returns([slide EXCEPT !.bg = color, !.bgAt = Len(slide.shapes)], "None")

add_shape_fill(slide, left, top, width, height, color, f) ==
  IF f = "lib" THEN Raises(slide, "LibraryError")
  ELSE Returns(shapes_add(slide, Shape("rect", left, top, width, height, color, 0, FALSE, <<>>)), "shape")

\* The two try/except blocks swallow what the alignment and the spacing raise.
add_textbox(slide, left, top, width, height, font_size, color, italic, f) ==
  IF f = "lib" THEN Raises(slide, "LibraryError")
  ELSE Returns(shapes_add(slide, Shape("textbox", left, top, width, height, color, font_size, italic, <<>>)), "shape")

\* One paragraph per line, all with the call's font.
add_multiline_textbox(slide, left, top, width, height, lines, font_size, color, italic, f) ==
  IF f = "lib" THEN Raises(slide, "LibraryError")
  ELSE Returns(shapes_add(slide, TextShape(left, top, width, height,
                  [i \in 1..Len(lines) |-> <<font_size, color, italic>>])), "shape")

\* add_citation_strip without its bar (C17 depends on the bar).
add_citation_strip_no_bar(slide, dark_bg, f) ==
  LET t == add_textbox(slide, Inches(5, 10), SLIDE_H - Inches(45, 100),
                       SLIDE_W - Inches(1, 1), Inches(35, 100),
                       9, CITE_GRAY, TRUE, f)
  IN [t EXCEPT !.ret = IF t.raised = "" THEN "None" ELSE @]

\* add_citation_strip whose text box is as wide as the slide (C18 depends on
\* the text box's width).
add_citation_strip_wide_text(slide, dark_bg, f) ==
  LET bar_color == IF dark_bg THEN CITE_BAR_DARK ELSE CITE_BAR_LIGHT
      bar == add_shape_fill(slide, Inches(0, 1), SLIDE_H - Inches(55, 100),
                            SLIDE_W, Inches(55, 100), bar_color, f)
  IN IF bar.raised # "" THEN bar
     ELSE LET t == add_textbox(bar.slide, Inches(5, 10), SLIDE_H - Inches(45, 100),
                               SLIDE_W, Inches(35, 100),
                               9, CITE_GRAY, TRUE, f)
          IN [t EXCEPT !.ret = "None"]

add_citation_strip(slide, dark_bg, f) ==
  LET bar_color == IF dark_bg THEN CITE_BAR_DARK ELSE CITE_BAR_LIGHT
      bar == add_shape_fill(slide, Inches(0, 1), SLIDE_H - Inches(55, 100),
                            SLIDE_W, Inches(55, 100), bar_color, f)
  IN IF bar.raised # "" THEN bar
     ELSE LET t == add_textbox(bar.slide, Inches(5, 10), SLIDE_H - Inches(45, 100),
                               SLIDE_W - Inches(1, 1), Inches(35, 100),
                               9, CITE_GRAY, TRUE, f)
          IN [t EXCEPT !.ret = "None"]

add_accent_line(slide, left, top, width, color, height, f) ==
  IF f = "lib" THEN Raises(slide, "LibraryError")
  ELSE Returns(shapes_add(slide, Shape("rect", left, top, width, height, color, 0, FALSE, <<>>)), "shape")

add_section_label(slide, left, top, color, f) ==
  LET t == add_textbox(slide, left, top, Inches(3, 1), Inches(3, 10), 10, color, FALSE, f)
  IN [t EXCEPT !.ret = IF t.raised = "" THEN "None" ELSE @]

\* safe_add_image without the os.path.exists test of line 138 (C1 depends on the test).
safe_add_image_unchecked(slide, img_file, left, top, width, height, files, f) ==
  LET path == IF os_path_isabs(img_file) THEN img_file ELSE img_path(img_file)
  IN shapes_add_picture(slide, path, left, top,
                        IF width # 0 THEN width ELSE 0,
                        IF height # 0 THEN height ELSE 0, files, f)

safe_add_image(slide, img_file, left, top, width, height, files, f) ==
  LET path == IF os_path_isabs(img_file) THEN img_file ELSE img_path(img_file)
  IN IF ~os_path_exists(path, files)
     THEN [slide |-> slide, raised |-> "", out |-> << <<"WARNING", path>> >>, ret |-> "None"]
     ELSE shapes_add_picture(slide, path, left, top,
                             IF width # 0 THEN width ELSE 0,
                             IF height # 0 THEN height ELSE 0, files, f)

\* -------------------------------------- create_presentation_v2.py helpers
v2_set_slide_bg(slide, color, f) ==
  IF f = "lib" THEN Raises(slide, "LibraryError")
  ELSE Returns([slide EXCEPT !.bg = color, !.bgAt = Len(slide.shapes)], "None")

\* The try/except around vertical_anchor swallows what it raises.
add_text_box(slide, left, top, width, height, font_size, color, italic, f) ==
  IF f = "lib" THEN Raises(slide, "LibraryError")
  ELSE Returns(shapes_add(slide, Shape("textbox", left, top, width, height, color, font_size, italic, <<>>)), "shape")

\* The runs carry their own sizes and colours (default 16 pt, TEXT_LIGHT).
add_rich_text(slide, left, top, width, height, f) ==
  IF f = "lib" THEN Raises(slide, "LibraryError")
  ELSE Returns(shapes_add(slide, Shape("textbox", left, top, width, height, "", 0, FALSE, <<>>)), "shape")

\* One paragraph per line: a dict line has its own size, color and italic flag
\* (defaults: the call's font_size and color, not italic), a plain line the
\* call's font_size and color.
add_multiline_text(slide, left, top, width, height, lines, font_size, color, f) ==
  IF f = "lib" THEN Raises(slide, "LibraryError")
  ELSE Returns(shapes_add(slide, TextShape(left, top, width, height,
                  [i \in 1..Len(lines) |->
                     IF lines[i].dict
                     THEN <<IF lines[i].size # 0 THEN lines[i].size ELSE font_size,
                            IF lines[i].color # "" THEN lines[i].color ELSE color,
                            lines[i].italic>>
                     ELSE <<font_size, color, FALSE>>])), "shape")

\* add_citation that adds nothing (C10 depends on the text box it adds).
add_citation_nothing(slide, bg_dark, f) == Returns(slide, "None")

\* add_citation placed 0.2 inch lower, so that its text box ends below the
\* slide (C20 depends on the position).
add_citation_too_low(slide, bg_dark, f) ==
  LET t == add_text_box(slide, Inches(5, 10), Inches(72, 10), Inches(123, 10), Inches(4, 10),
                        9, CITATION_C, TRUE, f)
  IN [t EXCEPT !.ret = IF t.raised = "" THEN "None" ELSE @]

\* bg_dark is accepted and not used.
add_citation(slide, bg_dark, f) ==
  LET t == add_text_box(slide, Inches(5, 10), Inches(7, 1), Inches(123, 10), Inches(4, 10),
                        9, CITATION_C, TRUE, f)
  IN [t EXCEPT !.ret = IF t.raised = "" THEN "None" ELSE @]

add_shape_rect(slide, left, top, width, height, fill_color, border_color, f) ==
  IF f = "lib" THEN Raises(slide, "LibraryError")
  ELSE Returns(shapes_add(slide, Shape("rect", left, top, width, height, fill_color, 0, FALSE, <<>>)), "shape")

add_rounded_rect(slide, left, top, width, height, fill_color, border_color, f) ==
  IF f = "lib" THEN Raises(slide, "LibraryError")
  ELSE Returns(shapes_add(slide, Shape("rounded", left, top, width, height, fill_color, 0, FALSE, <<>>)), "shape")

\* add_image_safe without the os.path.exists test of line 381 (C2 depends on the test).
add_image_safe_unchecked(slide, path, left, top, width, height, files, f) ==
  LET r == shapes_add_picture(slide, path, left, top,
                              IF width # 0 THEN width ELSE 0,
                              IF height # 0 THEN height ELSE 0, files, f)
  IN [r EXCEPT !.ret = IF r.raised = "" THEN "True" ELSE @]

add_image_safe(slide, path, left, top, width, height, files, f) ==
  IF os_path_exists(path, files)
  THEN LET r == shapes_add_picture(slide, path, left, top,
                                   IF width # 0 THEN width ELSE 0,
                                   IF height # 0 THEN height ELSE 0, files, f)
       IN [r EXCEPT !.ret = IF r.raised = "" THEN "True" ELSE @]
  ELSE [slide |-> slide, raised |-> "", out |-> << <<"WARNING", path>> >>, ret |-> "False"]

v2_add_accent_line(slide, left, top, width, color, f) ==
  IF f = "lib" THEN Raises(slide, "LibraryError")
  ELSE Returns(shapes_add(slide, Shape("rect", left, top, width, Pt(3), color, 0, FALSE, <<>>)), "shape")

\* ------------------------------------------------ build_presentation.py slides
\* build_presentation.py lines 162-190: the calls of slide 1 in execution order (loops unrolled, lengths in EMU)
bp_slide_01 ==
  << [h |-> "add_slide", ln |-> 162],
     [h |-> "set_slide_bg", ln |-> 163, color |-> "0D1117"],
     [h |-> "safe_add_image", ln |-> 166, img_file |-> <<"", "logo_en.png">>, left |-> 548640, top |-> 457200, width |-> 0, height |-> 914400],
     [h |-> "add_accent_line", ln |-> 170, left |-> 548640, top |-> 1828800, width |-> 2286000, color |-> "C17F3A", height |-> 38100],
     [h |-> "add_textbox", ln |-> 173, left |-> 548640, top |-> 2103120, width |-> 9144000, height |-> 1371600, font_size |-> 36, color |-> "FFFFFF", italic |-> FALSE],
     [h |-> "add_textbox", ln |-> 178, left |-> 548640, top |-> 3657600, width |-> 9144000, height |-> 731520, font_size |-> 16, color |-> "E8E4DE", italic |-> TRUE],
     [h |-> "add_multiline_textbox", ln |-> 183, left |-> 548640, top |-> 4754880, width |-> 7315200, height |-> 1371600, lines |-> Plain(3), font_size |-> 14, color |-> "8B8680", italic |-> FALSE],
     [h |-> "add_citation_strip", ln |-> 189, dark_bg |-> TRUE] >>

\* Slide 2 passing dark_bg=True to add_citation_strip on its light background
\* (C19 depends on the flag).
bp_slide_02_dark_flag ==
  << [h |-> "add_slide", ln |-> 195],
     [h |-> "set_slide_bg", ln |-> 196, color |-> "F7F5F0"],
     [h |-> "add_section_label", ln |-> 198, left |-> 548640, top |-> 365760, color |-> "C17F3A"],
     [h |-> "add_textbox", ln |-> 201, left |-> 548640, top |-> 1097280, width |-> 4572000, height |-> 2286000, font_size |-> 84, color |-> "C17F3A", italic |-> FALSE],
     [h |-> "add_textbox", ln |-> 204, left |-> 548640, top |-> 3200400, width |-> 4572000, height |-> 548640, font_size |-> 20, color |-> "2D2D2D", italic |-> FALSE],
     [h |-> "add_accent_line", ln |-> 208, left |-> 548640, top |-> 3840480, width |-> 3657600, color |-> "C17F3A", height |-> 38100],
     [h |-> "add_multiline_textbox", ln |-> 210, left |-> 548640, top |-> 4114800, width |-> 4572000, height |-> 1645920, lines |-> Plain(3), font_size |-> 14, color |-> "2D2D2D", italic |-> FALSE],
     [h |-> "safe_add_image", ln |-> 217, img_file |-> chart_path("prevalence_projection.png"), left |-> 5943600, top |-> 914400, width |-> 5760720, height |-> 0],
     [h |-> "add_citation_strip", ln |-> 220, dark_bg |-> TRUE] >>

\* build_presentation.py lines 195-222: the calls of slide 2 in execution order (loops unrolled, lengths in EMU)
bp_slide_02 ==
  << [h |-> "add_slide", ln |-> 195],
     [h |-> "set_slide_bg", ln |-> 196, color |-> "F7F5F0"],
     [h |-> "add_section_label", ln |-> 198, left |-> 548640, top |-> 365760, color |-> "C17F3A"],
     [h |-> "add_textbox", ln |-> 201, left |-> 548640, top |-> 1097280, width |-> 4572000, height |-> 2286000, font_size |-> 84, color |-> "C17F3A", italic |-> FALSE],
     [h |-> "add_textbox", ln |-> 204, left |-> 548640, top |-> 3200400, width |-> 4572000, height |-> 548640, font_size |-> 20, color |-> "2D2D2D", italic |-> FALSE],
     [h |-> "add_accent_line", ln |-> 208, left |-> 548640, top |-> 3840480, width |-> 3657600, color |-> "C17F3A", height |-> 38100],
     [h |-> "add_multiline_textbox", ln |-> 210, left |-> 548640, top |-> 4114800, width |-> 4572000, height |-> 1645920, lines |-> Plain(3), font_size |-> 14, color |-> "2D2D2D", italic |-> FALSE],
     [h |-> "safe_add_image", ln |-> 217, img_file |-> chart_path("prevalence_projection.png"), left |-> 5943600, top |-> 914400, width |-> 5760720, height |-> 0],
     [h |-> "add_citation_strip", ln |-> 220, dark_bg |-> FALSE] >>

\* build_presentation.py lines 227-247: the calls of slide 3 in execution order (loops unrolled, lengths in EMU)
bp_slide_03 ==
  << [h |-> "add_slide", ln |-> 227],
     [h |-> "set_slide_bg", ln |-> 228, color |-> "0D1117"],
     [h |-> "add_textbox", ln |-> 230, left |-> 1371600, top |-> 2011680, width |-> 9418320, height |-> 1828800, font_size |-> 36, color |-> "FFFFFF", italic |-> FALSE],
     [h |-> "add_accent_line", ln |-> 235, left |-> 5029200, top |-> 4114800, width |-> 2103120, color |-> "C17F3A", height |-> 38100],
     [h |-> "add_textbox", ln |-> 238, left |-> 2286000, top |-> 4480560, width |-> 7589520, height |-> 1097280, font_size |-> 15, color |-> "E8E4DE", italic |-> TRUE],
     [h |-> "add_citation_strip", ln |-> 244, dark_bg |-> TRUE] >>

\* build_presentation.py lines 252-290: the calls of slide 4 in execution order (loops unrolled, lengths in EMU)
bp_slide_04 ==
  << [h |-> "add_slide", ln |-> 252],
     [h |-> "set_slide_bg", ln |-> 253, color |-> "F7F5F0"],
     [h |-> "add_section_label", ln |-> 255, left |-> 548640, top |-> 365760, color |-> "C17F3A"],
     [h |-> "add_textbox", ln |-> 257, left |-> 548640, top |-> 914400, width |-> 10972800, height |-> 731520, font_size |-> 32, color |-> "C17F3A", italic |-> FALSE],
     [h |-> "add_accent_line", ln |-> 260, left |-> 548640, top |-> 1691640, width |-> 2743200, color |-> "C17F3A", height |-> 38100],
     [h |-> "add_textbox", ln |-> 274, left |-> 731520, top |-> 2011680, width |-> 1371600, height |-> 1371600, font_size |-> 60, color |-> "C17F3A", italic |-> FALSE],
     [h |-> "add_textbox", ln |-> 277, left |-> 731520, top |-> 3200400, width |-> 3200400, height |-> 457200, font_size |-> 18, color |-> "2D2D2D", italic |-> FALSE],
     [h |-> "add_textbox", ln |-> 280, left |-> 731520, top |-> 3749039, width |-> 3200400, height |-> 1828800, font_size |-> 13, color |-> "2D2D2D", italic |-> FALSE],
     [h |-> "add_textbox", ln |-> 274, left |-> 4389120, top |-> 2011680, width |-> 1371600, height |-> 1371600, font_size |-> 60, color |-> "C17F3A", italic |-> FALSE],
     [h |-> "add_textbox", ln |-> 277, left |-> 4389120, top |-> 3200400, width |-> 3200400, height |-> 457200, font_size |-> 18, color |-> "2D2D2D", italic |-> FALSE],
     [h |-> "add_textbox", ln |-> 280, left |-> 4389120, top |-> 3749039, width |-> 3200400, height |-> 1828800, font_size |-> 13, color |-> "2D2D2D", italic |-> FALSE],
     [h |-> "add_textbox", ln |-> 274, left |-> 8046720, top |-> 2011680, width |-> 1371600, height |-> 1371600, font_size |-> 60, color |-> "C17F3A", italic |-> FALSE],
     [h |-> "add_textbox", ln |-> 277, left |-> 8046720, top |-> 3200400, width |-> 3200400, height |-> 457200, font_size |-> 18, color |-> "2D2D2D", italic |-> FALSE],
     [h |-> "add_textbox", ln |-> 280, left |-> 8046720, top |-> 3749039, width |-> 3200400, height |-> 1828800, font_size |-> 13, color |-> "2D2D2D", italic |-> FALSE],
     [h |-> "add_shape_fill", ln |-> 286, left |-> 4160520, top |-> 2194560, width |-> 12700, height |-> 3474720, color |-> "8B8680"],
     [h |-> "add_shape_fill", ln |-> 286, left |-> 7818120, top |-> 2194560, width |-> 12700, height |-> 3474720, color |-> "8B8680"],
     [h |-> "add_citation_strip", ln |-> 288, dark_bg |-> FALSE] >>

\* build_presentation.py lines 295-327: the calls of slide 5 in execution order (loops unrolled, lengths in EMU)
bp_slide_05 ==
  << [h |-> "add_slide", ln |-> 295],
     [h |-> "set_slide_bg", ln |-> 296, color |-> "0D1117"],
     [h |-> "safe_add_image", ln |-> 299, img_file |-> <<"", "nihms-137059-f0004.jpg">>, left |-> 0, top |-> 0, width |-> 7315200, height |-> 6858000],
     [h |-> "add_shape_fill", ln |-> 303, left |-> 6400800, top |-> 0, width |-> 5790895, height |-> 6858000, color |-> "0D1117"],
     [h |-> "add_section_label", ln |-> 307, left |-> 6858000, top |-> 914400, color |-> "C17F3A"],
     [h |-> "add_textbox", ln |-> 309, left |-> 6858000, top |-> 1371600, width |-> 4572000, height |-> 731520, font_size |-> 30, color |-> "FFFFFF", italic |-> FALSE],
     [h |-> "add_accent_line", ln |-> 312, left |-> 6858000, top |-> 2103120, width |-> 1828800, color |-> "C17F3A", height |-> 38100],
     [h |-> "add_multiline_textbox", ln |-> 314, left |-> 6858000, top |-> 2468880, width |-> 4572000, height |-> 3200400, lines |-> Plain(7), font_size |-> 14, color |-> "E8E4DE", italic |-> FALSE],
     [h |-> "add_citation_strip", ln |-> 324, dark_bg |-> TRUE] >>

\* build_presentation.py lines 332-375: the calls of slide 6 in execution order (loops unrolled, lengths in EMU)
bp_slide_06 ==
  << [h |-> "add_slide", ln |-> 332],
     [h |-> "set_slide_bg", ln |-> 333, color |-> "F7F5F0"],
     [h |-> "add_section_label", ln |-> 335, left |-> 548640, top |-> 365760, color |-> "C17F3A"],
     [h |-> "add_textbox", ln |-> 337, left |-> 548640, top |-> 914400, width |-> 10972800, height |-> 731520, font_size |-> 30, color |-> "C17F3A", italic |-> FALSE],
     [h |-> "add_accent_line", ln |-> 340, left |-> 548640, top |-> 1645920, width |-> 2743200, color |-> "C17F3A", height |-> 38100],
     [h |-> "add_textbox", ln |-> 358, left |-> 548640, top |-> 2011680, width |-> 3474720, height |-> 640080, font_size |-> 36, color |-> "C17F3A", italic |-> FALSE],
     [h |-> "add_textbox", ln |-> 360, left |-> 548640, top |-> 2651760, width |-> 3474720, height |-> 548640, font_size |-> 12, color |-> "8B8680", italic |-> TRUE],
     [h |-> "add_accent_line", ln |-> 362, left |-> 548640, top |-> 3246120, width |-> 1371600, color |-> "C17F3A", height |-> 38100],
     [h |-> "add_textbox", ln |-> 363, left |-> 548640, top |-> 3383280, width |-> 3474720, height |-> 2286000, font_size |-> 13, color |-> "2D2D2D", italic |-> FALSE],
     [h |-> "add_textbox", ln |-> 365, left |-> 548640, top |-> 5303520, width |-> 3474720, height |-> 274320, font_size |-> 10, color |-> "3B82B6", italic |-> TRUE],
     [h |-> "add_textbox", ln |-> 358, left |-> 4251960, top |-> 2011680, width |-> 3474720, height |-> 640080, font_size |-> 36, color |-> "C17F3A", italic |-> FALSE],
     [h |-> "add_textbox", ln |-> 360, left |-> 4251960, top |-> 2651760, width |-> 3474720, height |-> 548640, font_size |-> 12, color |-> "8B8680", italic |-> TRUE],
     [h |-> "add_accent_line", ln |-> 362, left |-> 4251960, top |-> 3246120, width |-> 1371600, color |-> "C17F3A", height |-> 38100],
     [h |-> "add_textbox", ln |-> 363, left |-> 4251960, top |-> 3383280, width |-> 3474720, height |-> 2286000, font_size |-> 13, color |-> "2D2D2D", italic |-> FALSE],
     [h |-> "add_textbox", ln |-> 365, left |-> 4251960, top |-> 5303520, width |-> 3474720, height |-> 274320, font_size |-> 10, color |-> "3B82B6", italic |-> TRUE],
     [h |-> "add_textbox", ln |-> 358, left |-> 7955280, top |-> 2011680, width |-> 3474720, height |-> 640080, font_size |-> 36, color |-> "C17F3A", italic |-> FALSE],
     [h |-> "add_textbox", ln |-> 360, left |-> 7955280, top |-> 2651760, width |-> 3474720, height |-> 548640, font_size |-> 12, color |-> "8B8680", italic |-> TRUE],
     [h |-> "add_accent_line", ln |-> 362, left |-> 7955280, top |-> 3246120, width |-> 1371600, color |-> "C17F3A", height |-> 38100],
     [h |-> "add_textbox", ln |-> 363, left |-> 7955280, top |-> 3383280, width |-> 3474720, height |-> 2286000, font_size |-> 13, color |-> "2D2D2D", italic |-> FALSE],
     [h |-> "add_textbox", ln |-> 365, left |-> 7955280, top |-> 5303520, width |-> 3474720, height |-> 274320, font_size |-> 10, color |-> "3B82B6", italic |-> TRUE],
     [h |-> "add_shape_fill", ln |-> 371, left |-> 4142232, top |-> 2011680, width |-> 12700, height |-> 3657600, color |-> "8B8680"],
     [h |-> "add_shape_fill", ln |-> 371, left |-> 7845552, top |-> 2011680, width |-> 12700, height |-> 3657600, color |-> "8B8680"],
     [h |-> "add_citation_strip", ln |-> 373, dark_bg |-> FALSE] >>

\* build_presentation.py lines 380-398: the calls of slide 7 in execution order (loops unrolled, lengths in EMU)
bp_slide_07 ==
  << [h |-> "add_slide", ln |-> 380],
     [h |-> "set_slide_bg", ln |-> 381, color |-> "0D1117"],
     [h |-> "add_textbox", ln |-> 383, left |-> 914400, top |-> 548640, width |-> 3657600, height |-> 365760, font_size |-> 12, color |-> "C17F3A", italic |-> FALSE],
     [h |-> "add_textbox", ln |-> 386, left |-> 914400, top |-> 2286000, width |-> 10058400, height |-> 1828800, font_size |-> 52, color |-> "FFFFFF", italic |-> FALSE],
     [h |-> "add_accent_line", ln |-> 390, left |-> 5029200, top |-> 4206240, width |-> 2103120, color |-> "C17F3A", height |-> 38100],
     [h |-> "add_textbox", ln |-> 392, left |-> 2286000, top |-> 4572000, width |-> 7589520, height |-> 914400, font_size |-> 16, color |-> "E8E4DE", italic |-> TRUE],
     [h |-> "add_citation_strip", ln |-> 397, dark_bg |-> TRUE] >>

\* build_presentation.py lines 403-435: the calls of slide 8 in execution order (loops unrolled, lengths in EMU)
bp_slide_08 ==
  << [h |-> "add_slide", ln |-> 403],
     [h |-> "set_slide_bg", ln |-> 404, color |-> "0D1117"],
     [h |-> "safe_add_image", ln |-> 406, img_file |-> <<"", "IntensityNormalization1.png">>, left |-> 0, top |-> 0, width |-> 6858000, height |-> 6858000],
     [h |-> "add_shape_fill", ln |-> 409, left |-> 6217920, top |-> 0, width |-> 5973775, height |-> 6858000, color |-> "0D1117"],
     [h |-> "add_section_label", ln |-> 411, left |-> 6675120, top |-> 731520, color |-> "C17F3A"],
     [h |-> "add_textbox", ln |-> 413, left |-> 6675120, top |-> 1188720, width |-> 5029200, height |-> 731520, font_size |-> 30, color |-> "FFFFFF", italic |-> FALSE],
     [h |-> "add_accent_line", ln |-> 416, left |-> 6675120, top |-> 1920240, width |-> 1828800, color |-> "C17F3A", height |-> 38100],
     [h |-> "add_multiline_textbox", ln |-> 418, left |-> 6675120, top |-> 2286000, width |-> 4846320, height |-> 3657600, lines |-> Plain(7), font_size |-> 13, color |-> "E8E4DE", italic |-> FALSE],
     [h |-> "add_citation_strip", ln |-> 432, dark_bg |-> TRUE] >>

\* build_presentation.py lines 440-475: the calls of slide 9 in execution order (loops unrolled, lengths in EMU)
bp_slide_09 ==
  << [h |-> "add_slide", ln |-> 440],
     [h |-> "set_slide_bg", ln |-> 441, color |-> "F7F5F0"],
     [h |-> "add_section_label", ln |-> 443, left |-> 548640, top |-> 365760, color |-> "C17F3A"],
     [h |-> "add_textbox", ln |-> 445, left |-> 548640, top |-> 914400, width |-> 10972800, height |-> 548640, font_size |-> 30, color |-> "C17F3A", italic |-> FALSE],
     [h |-> "add_accent_line", ln |-> 448, left |-> 548640, top |-> 1554480, width |-> 2743200, color |-> "C17F3A", height |-> 38100],
     [h |-> "safe_add_image", ln |-> 451, img_file |-> <<"", "pmp-32-1-1-f1.png">>, left |-> 548640, top |-> 2011680, width |-> 5029200, height |-> 0],
     [h |-> "add_textbox", ln |-> 454, left |-> 548640, top |-> 5120640, width |-> 5029200, height |-> 365760, font_size |-> 16, color |-> "2D2D2D", italic |-> FALSE],
     [h |-> "add_textbox", ln |-> 456, left |-> 548640, top |-> 5486400, width |-> 5029200, height |-> 640080, font_size |-> 12, color |-> "2D2D2D", italic |-> FALSE],
     [h |-> "add_shape_fill", ln |-> 461, left |-> 5943600, top |-> 2011680, width |-> 19050, height |-> 4114800, color |-> "8B8680"],
     [h |-> "safe_add_image", ln |-> 464, img_file |-> <<"", "pmp-32-1-1-f4.png">>, left |-> 6400800, top |-> 2011680, width |-> 5029200, height |-> 0],
     [h |-> "add_textbox", ln |-> 467, left |-> 6400800, top |-> 5120640, width |-> 5029200, height |-> 365760, font_size |-> 16, color |-> "2D2D2D", italic |-> FALSE],
     [h |-> "add_textbox", ln |-> 469, left |-> 6400800, top |-> 5486400, width |-> 5029200, height |-> 640080, font_size |-> 12, color |-> "2D2D2D", italic |-> FALSE],
     [h |-> "add_citation_strip", ln |-> 473, dark_bg |-> FALSE] >>

\* build_presentation.py lines 480-514: the calls of slide 10 in execution order (loops unrolled, lengths in EMU)
bp_slide_10 ==
  << [h |-> "add_slide", ln |-> 480],
     [h |-> "set_slide_bg", ln |-> 481, color |-> "F7F5F0"],
     [h |-> "add_section_label", ln |-> 483, left |-> 548640, top |-> 365760, color |-> "C17F3A"],
     [h |-> "add_textbox", ln |-> 485, left |-> 548640, top |-> 914400, width |-> 10972800, height |-> 548640, font_size |-> 30, color |-> "C17F3A", italic |-> FALSE],
     [h |-> "add_accent_line", ln |-> 488, left |-> 548640, top |-> 1554480, width |-> 2286000, color |-> "C17F3A", height |-> 38100],
     [h |-> "add_textbox", ln |-> 491, left |-> 548640, top |-> 2103120, width |-> 4572000, height |-> 1828800, font_size |-> 80, color |-> "C17F3A", italic |-> FALSE],
     [h |-> "add_textbox", ln |-> 494, left |-> 548640, top |-> 3840480, width |-> 4572000, height |-> 457200, font_size |-> 18, color |-> "2D2D2D", italic |-> FALSE],
     [h |-> "add_textbox", ln |-> 507, left |-> 5943600, top |-> 2011680, width |-> 5486400, height |-> 365760, font_size |-> 16, color |-> "C17F3A", italic |-> FALSE],
     [h |-> "add_textbox", ln |-> 509, left |-> 5943600, top |-> 2377440, width |-> 5486400, height |-> 914400, font_size |-> 12, color |-> "2D2D2D", italic |-> FALSE],
     [h |-> "add_textbox", ln |-> 507, left |-> 5943600, top |-> 3474720, width |-> 5486400, height |-> 365760, font_size |-> 16, color |-> "C17F3A", italic |-> FALSE],
     [h |-> "add_textbox", ln |-> 509, left |-> 5943600, top |-> 3840480, width |-> 5486400, height |-> 914400, font_size |-> 12, color |-> "2D2D2D", italic |-> FALSE],
     [h |-> "add_textbox", ln |-> 507, left |-> 5943600, top |-> 4937760, width |-> 5486400, height |-> 365760, font_size |-> 16, color |-> "C17F3A", italic |-> FALSE],
     [h |-> "add_textbox", ln |-> 509, left |-> 5943600, top |-> 5303520, width |-> 5486400, height |-> 914400, font_size |-> 12, color |-> "2D2D2D", italic |-> FALSE],
     [h |-> "add_citation_strip", ln |-> 512, dark_bg |-> FALSE] >>

\* build_presentation.py lines 519-573: the calls of slide 11 in execution order (loops unrolled, lengths in EMU)
bp_slide_11 ==
  << [h |-> "add_slide", ln |-> 519],
     [h |-> "set_slide_bg", ln |-> 520, color |-> "0D1117"],
     [h |-> "add_section_label", ln |-> 522, left |-> 548640, top |-> 457200, color |-> "C17F3A"],
     [h |-> "add_textbox", ln |-> 524, left |-> 548640, top |-> 914400, width |-> 10972800, height |-> 640080, font_size |-> 30, color |-> "FFFFFF", italic |-> FALSE],
     [h |-> "add_accent_line", ln |-> 527, left |-> 548640, top |-> 1645920, width |-> 2286000, color |-> "C17F3A", height |-> 38100],
     [h |-> "add_shape_fill", ln |-> 553, left |-> 457200, top |-> 2926080, width |-> 1097280, height |-> 1280160, color |-> "161B22"],
     [h |-> "add_textbox", ln |-> 557, left |-> 457200, top |-> 3017520, width |-> 1097280, height |-> 457200, font_size |-> 24, color |-> "3B82B6", italic |-> FALSE],
     [h |-> "add_textbox", ln |-> 561, left |-> 457200, top |-> 3383280, width |-> 1097280, height |-> 731520, font_size |-> 11, color |-> "E8E4DE", italic |-> FALSE],
     [h |-> "add_textbox", ln |-> 548, left |-> 1719072, top |-> 3108960, width |-> 731520, height |-> 548640, font_size |-> 30, color |-> "8B8680", italic |-> FALSE],
     [h |-> "add_shape_fill", ln |-> 553, left |-> 2980944, top |-> 2926080, width |-> 1097280, height |-> 1280160, color |-> "161B22"],
     [h |-> "add_textbox", ln |-> 557, left |-> 2980944, top |-> 3017520, width |-> 1097280, height |-> 457200, font_size |-> 24, color |-> "C17F3A", italic |-> FALSE],
     [h |-> "add_textbox", ln |-> 561, left |-> 2980944, top |-> 3383280, width |-> 1097280, height |-> 731520, font_size |-> 11, color |-> "E8E4DE", italic |-> FALSE],
     [h |-> "add_textbox", ln |-> 548, left |-> 4242816, top |-> 3108960, width |-> 731520, height |-> 548640, font_size |-> 30, color |-> "8B8680", italic |-> FALSE],
     [h |-> "add_shape_fill", ln |-> 553, left |-> 5504688, top |-> 2926080, width |-> 1097280, height |-> 1280160, color |-> "161B22"],
     [h |-> "add_textbox", ln |-> 557, left |-> 5504688, top |-> 3017520, width |-> 1097280, height |-> 457200, font_size |-> 24, color |-> "5B8C6B", italic |-> FALSE],
     [h |-> "add_textbox", ln |-> 561, left |-> 5504688, top |-> 3383280, width |-> 1097280, height |-> 731520, font_size |-> 11, color |-> "E8E4DE", italic |-> FALSE],
     [h |-> "add_textbox", ln |-> 548, left |-> 6766560, top |-> 3108960, width |-> 731520, height |-> 548640, font_size |-> 30, color |-> "8B8680", italic |-> FALSE],
     [h |-> "add_shape_fill", ln |-> 553, left |-> 8028432, top |-> 2926080, width |-> 1097280, height |-> 1280160, color |-> "161B22"],
     [h |-> "add_textbox", ln |-> 557, left |-> 8028432, top |-> 3017520, width |-> 1097280, height |-> 457200, font_size |-> 24, color |-> "DC4A4A", italic |-> FALSE],
     [h |-> "add_textbox", ln |-> 561, left |-> 8028432, top |-> 3383280, width |-> 1097280, height |-> 731520, font_size |-> 11, color |-> "E8E4DE", italic |-> FALSE],
     [h |-> "add_textbox", ln |-> 548, left |-> 9290304, top |-> 3108960, width |-> 731520, height |-> 548640, font_size |-> 30, color |-> "8B8680", italic |-> FALSE],
     [h |-> "add_shape_fill", ln |-> 553, left |-> 10552176, top |-> 2926080, width |-> 1097280, height |-> 1280160, color |-> "161B22"],
     [h |-> "add_textbox", ln |-> 557, left |-> 10552176, top |-> 3017520, width |-> 1097280, height |-> 457200, font_size |-> 24, color |-> "3B82B6", italic |-> FALSE],
     [h |-> "add_textbox", ln |-> 561, left |-> 10552176, top |-> 3383280, width |-> 1097280, height |-> 731520, font_size |-> 11, color |-> "E8E4DE", italic |-> FALSE],
     [h |-> "add_textbox", ln |-> 565, left |-> 548640, top |-> 4937760, width |-> 10972800, height |-> 914400, font_size |-> 14, color |-> "E8E4DE", italic |-> TRUE],
     [h |-> "add_citation_strip", ln |-> 570, dark_bg |-> TRUE] >>

\* build_presentation.py lines 578-615: the calls of slide 12 in execution order (loops unrolled, lengths in EMU)
bp_slide_12 ==
  << [h |-> "add_slide", ln |-> 578],
     [h |-> "set_slide_bg", ln |-> 579, color |-> "F7F5F0"],
     [h |-> "add_section_label", ln |-> 581, left |-> 548640, top |-> 365760, color |-> "C17F3A"],
     [h |-> "add_textbox", ln |-> 583, left |-> 548640, top |-> 914400, width |-> 10972800, height |-> 548640, font_size |-> 30, color |-> "C17F3A", italic |-> FALSE],
     [h |-> "add_accent_line", ln |-> 586, left |-> 548640, top |-> 1554480, width |-> 2743200, color |-> "C17F3A", height |-> 38100],
     [h |-> "safe_add_image", ln |-> 589, img_file |-> <<"", "IntensityNormalization2.png">>, left |-> 548640, top |-> 2011680, width |-> 5303520, height |-> 0],
     [h |-> "add_shape_fill", ln |-> 593, left |-> 5989320, top |-> 2011680, width |-> 19050, height |-> 3931920, color |-> "8B8680"],
     [h |-> "safe_add_image", ln |-> 596, img_file |-> <<"", "IntensityNormalization3.png">>, left |-> 6400800, top |-> 2011680, width |-> 5303520, height |-> 0],
     [h |-> "add_textbox", ln |-> 608, left |-> 548640, top |-> 5212080, width |-> 3474720, height |-> 274320, font_size |-> 12, color |-> "C17F3A", italic |-> FALSE],
     [h |-> "add_textbox", ln |-> 610, left |-> 548640, top |-> 5486400, width |-> 3474720, height |-> 640080, font_size |-> 10, color |-> "2D2D2D", italic |-> FALSE],
     [h |-> "add_textbox", ln |-> 608, left |-> 4389120, top |-> 5212080, width |-> 3474720, height |-> 274320, font_size |-> 12, color |-> "C17F3A", italic |-> FALSE],
     [h |-> "add_textbox", ln |-> 610, left |-> 4389120, top |-> 5486400, width |-> 3474720, height |-> 640080, font_size |-> 10, color |-> "2D2D2D", italic |-> FALSE],
     [h |-> "add_textbox", ln |-> 608, left |-> 8229600, top |-> 5212080, width |-> 3474720, height |-> 274320, font_size |-> 12, color |-> "C17F3A", italic |-> FALSE],
     [h |-> "add_textbox", ln |-> 610, left |-> 8229600, top |-> 5486400, width |-> 3474720, height |-> 640080, font_size |-> 10, color |-> "2D2D2D", italic |-> FALSE],
     [h |-> "add_citation_strip", ln |-> 613, dark_bg |-> FALSE] >>

\* build_presentation.py lines 620-660: the calls of slide 13 in execution order (loops unrolled, lengths in EMU)
bp_slide_13 ==
  << [h |-> "add_slide", ln |-> 620],
     [h |-> "set_slide_bg", ln |-> 621, color |-> "F7F5F0"],
     [h |-> "add_section_label", ln |-> 623, left |-> 548640, top |-> 365760, color |-> "C17F3A"],
     [h |-> "add_textbox", ln |-> 625, left |-> 548640, top |-> 914400, width |-> 10972800, height |-> 548640, font_size |-> 30, color |-> "C17F3A", italic |-> FALSE],
     [h |-> "add_accent_line", ln |-> 628, left |-> 548640, top |-> 1554480, width |-> 2286000, color |-> "C17F3A", height |-> 38100],
     [h |-> "add_textbox", ln |-> 645, left |-> 548640, top |-> 2011680, width |-> 1371600, height |-> 914400, font_size |-> 42, color |-> "C17F3A", italic |-> FALSE],
     [h |-> "add_textbox", ln |-> 647, left |-> 548640, top |-> 2926080, width |-> 3474720, height |-> 365760, font_size |-> 14, color |-> "2D2D2D", italic |-> FALSE],
     [h |-> "add_accent_line", ln |-> 649, left |-> 548640, top |-> 3337560, width |-> 1371600, color |-> "C17F3A", height |-> 38100],
     [h |-> "add_textbox", ln |-> 650, left |-> 548640, top |-> 3566160, width |-> 3474720, height |-> 2286000, font_size |-> 12, color |-> "2D2D2D", italic |-> FALSE],
     [h |-> "add_textbox", ln |-> 645, left |-> 4389120, top |-> 2011680, width |-> 1371600, height |-> 914400, font_size |-> 42, color |-> "C17F3A", italic |-> FALSE],
     [h |-> "add_textbox", ln |-> 647, left |-> 4389120, top |-> 2926080, width |-> 3474720, height |-> 365760, font_size |-> 14, color |-> "2D2D2D", italic |-> FALSE],
     [h |-> "add_accent_line", ln |-> 649, left |-> 4389120, top |-> 3337560, width |-> 1371600, color |-> "C17F3A", height |-> 38100],
     [h |-> "add_textbox", ln |-> 650, left |-> 4389120, top |-> 3566160, width |-> 3474720, height |-> 2286000, font_size |-> 12, color |-> "2D2D2D", italic |-> FALSE],
     [h |-> "add_textbox", ln |-> 645, left |-> 8229600, top |-> 2011680, width |-> 1371600, height |-> 914400, font_size |-> 42, color |-> "C17F3A", italic |-> FALSE],
     [h |-> "add_textbox", ln |-> 647, left |-> 8229600, top |-> 2926080, width |-> 3474720, height |-> 365760, font_size |-> 14, color |-> "2D2D2D", italic |-> FALSE],
     [h |-> "add_accent_line", ln |-> 649, left |-> 8229600, top |-> 3337560, width |-> 1371600, color |-> "C17F3A", height |-> 38100],
     [h |-> "add_textbox", ln |-> 650, left |-> 8229600, top |-> 3566160, width |-> 3474720, height |-> 2286000, font_size |-> 12, color |-> "2D2D2D", italic |-> FALSE],
     [h |-> "add_shape_fill", ln |-> 656, left |-> 4297680, top |-> 2011680, width |-> 12700, height |-> 3657600, color |-> "8B8680"],
     [h |-> "add_shape_fill", ln |-> 656, left |-> 8138160, top |-> 2011680, width |-> 12700, height |-> 3657600, color |-> "8B8680"],
     [h |-> "add_citation_strip", ln |-> 658, dark_bg |-> FALSE] >>

\* build_presentation.py lines 665-698: the calls of slide 14 in execution order (loops unrolled, lengths in EMU)
bp_slide_14 ==
  << [h |-> "add_slide", ln |-> 665],
     [h |-> "set_slide_bg", ln |-> 666, color |-> "0D1117"],
     [h |-> "safe_add_image", ln |-> 668, img_file |-> <<"", "Skull Stripping image.png">>, left |-> 0, top |-> 0, width |-> 6400800, height |-> 6858000],
     [h |-> "add_shape_fill", ln |-> 671, left |-> 5669280, top |-> 0, width |-> 6522415, height |-> 6858000, color |-> "0D1117"],
     [h |-> "add_section_label", ln |-> 673, left |-> 6217920, top |-> 731520, color |-> "C17F3A"],
     [h |-> "add_textbox", ln |-> 675, left |-> 6217920, top |-> 1188720, width |-> 5486400, height |-> 640080, font_size |-> 30, color |-> "FFFFFF", italic |-> FALSE],
     [h |-> "add_accent_line", ln |-> 678, left |-> 6217920, top |-> 1874519, width |-> 1828800, color |-> "C17F3A", height |-> 38100],
     [h |-> "add_multiline_textbox", ln |-> 680, left |-> 6217920, top |-> 2286000, width |-> 5303520, height |-> 2743200, lines |-> Plain(7), font_size |-> 13, color |-> "E8E4DE", italic |-> FALSE],
     [h |-> "safe_add_image", ln |-> 692, img_file |-> <<"", "Skull Stripping Techniques.png">>, left |-> 6217920, top |-> 4754880, width |-> 5029200, height |-> 1371600],
     [h |-> "add_citation_strip", ln |-> 695, dark_bg |-> TRUE] >>

\* build_presentation.py lines 703-735: the calls of slide 15 in execution order (loops unrolled, lengths in EMU)
bp_slide_15 ==
  << [h |-> "add_slide", ln |-> 703],
     [h |-> "set_slide_bg", ln |-> 704, color |-> "0D1117"],
     [h |-> "safe_add_image", ln |-> 706, img_file |-> <<"", "nihms154848f1.jpg">>, left |-> 0, top |-> 0, width |-> 6858000, height |-> 6858000],
     [h |-> "add_shape_fill", ln |-> 709, left |-> 6217920, top |-> 0, width |-> 5973775, height |-> 6858000, color |-> "0D1117"],
     [h |-> "add_section_label", ln |-> 711, left |-> 6675120, top |-> 731520, color |-> "C17F3A"],
     [h |-> "add_textbox", ln |-> 713, left |-> 6675120, top |-> 1188720, width |-> 5029200, height |-> 640080, font_size |-> 28, color |-> "FFFFFF", italic |-> FALSE],
     [h |-> "add_accent_line", ln |-> 716, left |-> 6675120, top |-> 1874519, width |-> 1828800, color |-> "C17F3A", height |-> 38100],
     [h |-> "add_multiline_textbox", ln |-> 718, left |-> 6675120, top |-> 2286000, width |-> 4846320, height |-> 3657600, lines |-> Plain(7), font_size |-> 13, color |-> "E8E4DE", italic |-> FALSE],
     [h |-> "add_citation_strip", ln |-> 732, dark_bg |-> TRUE] >>

\* build_presentation.py lines 740-770: the calls of slide 16 in execution order (loops unrolled, lengths in EMU)
bp_slide_16 ==
  << [h |-> "add_slide", ln |-> 740],
     [h |-> "set_slide_bg", ln |-> 741, color |-> "F7F5F0"],
     [h |-> "add_section_label", ln |-> 743, left |-> 548640, top |-> 365760, color |-> "C17F3A"],
     [h |-> "add_textbox", ln |-> 746, left |-> 548640, top |-> 914400, width |-> 4572000, height |-> 2286000, font_size |-> 80, color |-> "C17F3A", italic |-> FALSE],
     [h |-> "add_textbox", ln |-> 749, left |-> 548640, top |-> 2926080, width |-> 4572000, height |-> 457200, font_size |-> 18, color |-> "2D2D2D", italic |-> FALSE],
     [h |-> "add_accent_line", ln |-> 753, left |-> 548640, top |-> 3474720, width |-> 3200400, color |-> "C17F3A", height |-> 38100],
     [h |-> "add_multiline_textbox", ln |-> 755, left |-> 548640, top |-> 3749039, width |-> 5029200, height |-> 1828800, lines |-> Plain(3), font_size |-> 13, color |-> "2D2D2D", italic |-> FALSE],
     [h |-> "safe_add_image", ln |-> 765, img_file |-> chart_path("ml_comparison.png"), left |-> 5943600, top |-> 731520, width |-> 5760720, height |-> 0],
     [h |-> "add_citation_strip", ln |-> 768, dark_bg |-> FALSE] >>

\* build_presentation.py lines 775-814: the calls of slide 17 in execution order (loops unrolled, lengths in EMU)
bp_slide_17 ==
  << [h |-> "add_slide", ln |-> 775],
     [h |-> "set_slide_bg", ln |-> 776, color |-> "0D1117"],
     [h |-> "add_section_label", ln |-> 778, left |-> 548640, top |-> 457200, color |-> "C17F3A"],
     [h |-> "add_textbox", ln |-> 780, left |-> 548640, top |-> 914400, width |-> 10972800, height |-> 640080, font_size |-> 30, color |-> "FFFFFF", italic |-> FALSE],
     [h |-> "add_accent_line", ln |-> 783, left |-> 548640, top |-> 1645920, width |-> 2286000, color |-> "C17F3A", height |-> 38100],
     [h |-> "add_shape_fill", ln |-> 797, left |-> 457200, top |-> 2194560, width |-> 3566160, height |-> 3474720, color |-> "161B22"],
     [h |-> "add_textbox", ln |-> 802, left |-> 640080, top |-> 2377440, width |-> 3200400, height |-> 457200, font_size |-> 22, color |-> "3B82B6", italic |-> FALSE],
     [h |-> "add_textbox", ln |-> 804, left |-> 640080, top |-> 2834640, width |-> 3200400, height |-> 274320, font_size |-> 12, color |-> "C17F3A", italic |-> TRUE],
     [h |-> "add_accent_line", ln |-> 806, left |-> 640080, top |-> 3154680, width |-> 1371600, color |-> "3B82B6", height |-> 38100],
     [h |-> "add_textbox", ln |-> 808, left |-> 640080, top |-> 3383280, width |-> 3200400, height |-> 2011680, font_size |-> 12, color |-> "E8E4DE", italic |-> FALSE],
     [h |-> "add_shape_fill", ln |-> 797, left |-> 4297680, top |-> 2194560, width |-> 3566160, height |-> 3474720, color |-> "161B22"],
     [h |-> "add_textbox", ln |-> 802, left |-> 4480560, top |-> 2377440, width |-> 3200400, height |-> 457200, font_size |-> 22, color |-> "3B82B6", italic |-> FALSE],
     [h |-> "add_textbox", ln |-> 804, left |-> 4480560, top |-> 2834640, width |-> 3200400, height |-> 274320, font_size |-> 12, color |-> "C17F3A", italic |-> TRUE],
     [h |-> "add_accent_line", ln |-> 806, left |-> 4480560, top |-> 3154680, width |-> 1371600, color |-> "3B82B6", height |-> 38100],
     [h |-> "add_textbox", ln |-> 808, left |-> 4480560, top |-> 3383280, width |-> 3200400, height |-> 2011680, font_size |-> 12, color |-> "E8E4DE", italic |-> FALSE],
     [h |-> "add_shape_fill", ln |-> 797, left |-> 8138160, top |-> 2194560, width |-> 3566160, height |-> 3474720, color |-> "161B22"],
     [h |-> "add_textbox", ln |-> 802, left |-> 8321040, top |-> 2377440, width |-> 3200400, height |-> 457200, font_size |-> 22, color |-> "5B8C6B", italic |-> FALSE],
     [h |-> "add_textbox", ln |-> 804, left |-> 8321040, top |-> 2834640, width |-> 3200400, height |-> 274320, font_size |-> 12, color |-> "C17F3A", italic |-> TRUE],
     [h |-> "add_accent_line", ln |-> 806, left |-> 8321040, top |-> 3154680, width |-> 1371600, color |-> "5B8C6B", height |-> 38100],
     [h |-> "add_textbox", ln |-> 808, left |-> 8321040, top |-> 3383280, width |-> 3200400, height |-> 2011680, font_size |-> 12, color |-> "E8E4DE", italic |-> FALSE],
     [h |-> "add_citation_strip", ln |-> 811, dark_bg |-> TRUE] >>

\* build_presentation.py lines 819-867: the calls of slide 18 in execution order (loops unrolled, lengths in EMU)
bp_slide_18 ==
  << [h |-> "add_slide", ln |-> 819],
     [h |-> "set_slide_bg", ln |-> 820, color |-> "F7F5F0"],
     [h |-> "add_section_label", ln |-> 822, left |-> 548640, top |-> 365760, color |-> "C17F3A"],
     [h |-> "add_textbox", ln |-> 824, left |-> 548640, top |-> 914400, width |-> 10972800, height |-> 548640, font_size |-> 28, color |-> "C17F3A", italic |-> FALSE],
     [h |-> "add_accent_line", ln |-> 827, left |-> 548640, top |-> 1554480, width |-> 2743200, color |-> "C17F3A", height |-> 38100],
     [h |-> "add_textbox", ln |-> 830, left |-> 548640, top |-> 2011680, width |-> 5029200, height |-> 457200, font_size |-> 20, color |-> "3B82B6", italic |-> FALSE],
     [h |-> "add_multiline_textbox", ln |-> 833, left |-> 548640, top |-> 2560320, width |-> 5029200, height |-> 3200400, lines |-> Plain(7), font_size |-> 13, color |-> "2D2D2D", italic |-> FALSE],
     [h |-> "add_shape_fill", ln |-> 846, left |-> 5852160, top |-> 2011680, width |-> 19050, height |-> 3931920, color |-> "8B8680"],
     [h |-> "add_textbox", ln |-> 849, left |-> 6217920, top |-> 2011680, width |-> 5486400, height |-> 457200, font_size |-> 20, color |-> "5B8C6B", italic |-> FALSE],
     [h |-> "add_multiline_textbox", ln |-> 852, left |-> 6217920, top |-> 2560320, width |-> 5303520, height |-> 3200400, lines |-> Plain(7), font_size |-> 13, color |-> "2D2D2D", italic |-> FALSE],
     [h |-> "add_citation_strip", ln |-> 865, dark_bg |-> FALSE] >>

\* build_presentation.py lines 872-904: the calls of slide 19 in execution order (loops unrolled, lengths in EMU)
bp_slide_19 ==
  << [h |-> "add_slide", ln |-> 872],
     [h |-> "set_slide_bg", ln |-> 873, color |-> "F7F5F0"],
     [h |-> "add_section_label", ln |-> 875, left |-> 548640, top |-> 365760, color |-> "C17F3A"],
     [h |-> "add_textbox", ln |-> 877, left |-> 548640, top |-> 914400, width |-> 5486400, height |-> 548640, font_size |-> 30, color |-> "C17F3A", italic |-> FALSE],
     [h |-> "add_accent_line", ln |-> 880, left |-> 548640, top |-> 1554480, width |-> 2286000, color |-> "C17F3A", height |-> 38100],
     [h |-> "add_multiline_textbox", ln |-> 882, left |-> 548640, top |-> 2011680, width |-> 5029200, height |-> 3657600, lines |-> Plain(9), font_size |-> 13, color |-> "2D2D2D", italic |-> FALSE],
     [h |-> "safe_add_image", ln |-> 899, img_file |-> chart_path("roc_curve.png"), left |-> 6400800, top |-> 914400, width |-> 5029200, height |-> 0],
     [h |-> "add_citation_strip", ln |-> 902, dark_bg |-> FALSE] >>

\* build_presentation.py lines 909-948: the calls of slide 20 in execution order (loops unrolled, lengths in EMU)
bp_slide_20 ==
  << [h |-> "add_slide", ln |-> 909],
     [h |-> "set_slide_bg", ln |-> 910, color |-> "0D1117"],
     [h |-> "safe_add_image", ln |-> 912, img_file |-> <<"", "Grad-CAMVBM.png">>, left |-> 0, top |-> 0, width |-> 6400800, height |-> 6858000],
     [h |-> "add_shape_fill", ln |-> 915, left |-> 5669280, top |-> 0, width |-> 6522415, height |-> 6858000, color |-> "0D1117"],
     [h |-> "add_section_label", ln |-> 917, left |-> 6217920, top |-> 731520, color |-> "C17F3A"],
     [h |-> "add_textbox", ln |-> 919, left |-> 6217920, top |-> 1188720, width |-> 5486400, height |-> 640080, font_size |-> 28, color |-> "FFFFFF", italic |-> FALSE],
     [h |-> "add_accent_line", ln |-> 922, left |-> 6217920, top |-> 1874519, width |-> 1828800, color |-> "C17F3A", height |-> 38100],
     [h |-> "add_textbox", ln |-> 935, left |-> 6217920, top |-> 2286000, width |-> 5486400, height |-> 365760, font_size |-> 16, color |-> "C17F3A", italic |-> FALSE],
     [h |-> "add_textbox", ln |-> 937, left |-> 6217920, top |-> 2606040, width |-> 5303520, height |-> 914400, font_size |-> 12, color |-> "E8E4DE", italic |-> FALSE],
     [h |-> "add_textbox", ln |-> 935, left |-> 6217920, top |-> 3657600, width |-> 5486400, height |-> 365760, font_size |-> 16, color |-> "C17F3A", italic |-> FALSE],
     [h |-> "add_textbox", ln |-> 937, left |-> 6217920, top |-> 3977640, width |-> 5303520, height |-> 914400, font_size |-> 12, color |-> "E8E4DE", italic |-> FALSE],
     [h |-> "add_textbox", ln |-> 935, left |-> 6217920, top |-> 5029200, width |-> 5486400, height |-> 365760, font_size |-> 16, color |-> "C17F3A", italic |-> FALSE],
     [h |-> "add_textbox", ln |-> 937, left |-> 6217920, top |-> 5349240, width |-> 5303520, height |-> 914400, font_size |-> 12, color |-> "E8E4DE", italic |-> FALSE],
     [h |-> "add_textbox", ln |-> 940, left |-> 6217920, top |-> 5303520, width |-> 5303520, height |-> 731520, font_size |-> 12, color |-> "E8E4DE", italic |-> TRUE],
     [h |-> "add_citation_strip", ln |-> 945, dark_bg |-> TRUE] >>

\* build_presentation.py lines 953-986: the calls of slide 21 in execution order (loops unrolled, lengths in EMU)
bp_slide_21 ==
  << [h |-> "add_slide", ln |-> 953],
     [h |-> "set_slide_bg", ln |-> 954, color |-> "0D1117"],
     [h |-> "safe_add_image", ln |-> 956, img_file |-> <<"", "limitations_gradcam.png">>, left |-> 0, top |-> 0, width |-> 6858000, height |-> 6858000],
     [h |-> "add_shape_fill", ln |-> 959, left |-> 6217920, top |-> 0, width |-> 5973775, height |-> 6858000, color |-> "0D1117"],
     [h |-> "add_section_label", ln |-> 961, left |-> 6675120, top |-> 731520, color |-> "C17F3A"],
     [h |-> "add_textbox", ln |-> 963, left |-> 6675120, top |-> 1188720, width |-> 5029200, height |-> 640080, font_size |-> 28, color |-> "FFFFFF", italic |-> FALSE],
     [h |-> "add_accent_line", ln |-> 966, left |-> 6675120, top |-> 2103120, width |-> 1828800, color |-> "C17F3A", height |-> 38100],
     [h |-> "add_multiline_textbox", ln |-> 968, left |-> 6675120, top |-> 2468880, width |-> 4846320, height |-> 3200400, lines |-> Plain(7), font_size |-> 13, color |-> "E8E4DE", italic |-> FALSE],
     [h |-> "add_citation_strip", ln |-> 983, dark_bg |-> TRUE] >>

\* build_presentation.py lines 991-1009: the calls of slide 22 in execution order (loops unrolled, lengths in EMU)
bp_slide_22 ==
  << [h |-> "add_slide", ln |-> 991],
     [h |-> "set_slide_bg", ln |-> 992, color |-> "0D1117"],
     [h |-> "add_textbox", ln |-> 994, left |-> 914400, top |-> 548640, width |-> 3657600, height |-> 365760, font_size |-> 12, color |-> "DC4A4A", italic |-> FALSE],
     [h |-> "add_textbox", ln |-> 997, left |-> 914400, top |-> 2286000, width |-> 10058400, height |-> 1828800, font_size |-> 48, color |-> "FFFFFF", italic |-> FALSE],
     [h |-> "add_accent_line", ln |-> 1001, left |-> 5029200, top |-> 4389120, width |-> 2103120, color |-> "DC4A4A", height |-> 38100],
     [h |-> "add_textbox", ln |-> 1003, left |-> 2286000, top |-> 4754880, width |-> 7589520, height |-> 914400, font_size |-> 16, color |-> "E8E4DE", italic |-> TRUE],
     [h |-> "add_citation_strip", ln |-> 1008, dark_bg |-> TRUE] >>

\* build_presentation.py lines 1014-1047: the calls of slide 23 in execution order (loops unrolled, lengths in EMU)
bp_slide_23 ==
  << [h |-> "add_slide", ln |-> 1014],
     [h |-> "set_slide_bg", ln |-> 1015, color |-> "F7F5F0"],
     [h |-> "add_section_label", ln |-> 1017, left |-> 548640, top |-> 365760, color |-> "DC4A4A"],
     [h |-> "add_textbox", ln |-> 1020, left |-> 548640, top |-> 914400, width |-> 4572000, height |-> 2286000, font_size |-> 80, color |-> "DC4A4A", italic |-> FALSE],
     [h |-> "add_textbox", ln |-> 1023, left |-> 548640, top |-> 2926080, width |-> 4572000, height |-> 457200, font_size |-> 18, color |-> "2D2D2D", italic |-> FALSE],
     [h |-> "add_accent_line", ln |-> 1027, left |-> 548640, top |-> 3474720, width |-> 3200400, color |-> "DC4A4A", height |-> 38100],
     [h |-> "add_multiline_textbox", ln |-> 1029, left |-> 548640, top |-> 3749039, width |-> 5029200, height |-> 2011680, lines |-> Plain(5), font_size |-> 13, color |-> "2D2D2D", italic |-> FALSE],
     [h |-> "safe_add_image", ln |-> 1042, img_file |-> chart_path("data_leakage_impact.png"), left |-> 5943600, top |-> 731520, width |-> 5760720, height |-> 0],
     [h |-> "add_citation_strip", ln |-> 1045, dark_bg |-> FALSE] >>

\* build_presentation.py lines 1052-1082: the calls of slide 24 in execution order (loops unrolled, lengths in EMU)
bp_slide_24 ==
  << [h |-> "add_slide", ln |-> 1052],
     [h |-> "set_slide_bg", ln |-> 1053, color |-> "F7F5F0"],
     [h |-> "add_section_label", ln |-> 1055, left |-> 548640, top |-> 365760, color |-> "DC4A4A"],
     [h |-> "add_textbox", ln |-> 1057, left |-> 548640, top |-> 914400, width |-> 5486400, height |-> 548640, font_size |-> 30, color |-> "DC4A4A", italic |-> FALSE],
     [h |-> "add_accent_line", ln |-> 1060, left |-> 548640, top |-> 1554480, width |-> 2286000, color |-> "DC4A4A", height |-> 38100],
     [h |-> "safe_add_image", ln |-> 1062, img_file |-> <<"", "limitations_class_imbalance.png">>, left |-> 365760, top |-> 2011680, width |-> 5943600, height |-> 0],
     [h |-> "add_multiline_textbox", ln |-> 1065, left |-> 6583680, top |-> 1371600, width |-> 5029200, height |-> 4572000, lines |-> Plain(7), font_size |-> 13, color |-> "2D2D2D", italic |-> FALSE],
     [h |-> "add_citation_strip", ln |-> 1080, dark_bg |-> FALSE] >>

\* build_presentation.py lines 1087-1133: the calls of slide 25 in execution order (loops unrolled, lengths in EMU)
bp_slide_25 ==
  << [h |-> "add_slide", ln |-> 1087],
     [h |-> "set_slide_bg", ln |-> 1088, color |-> "F7F5F0"],
     [h |-> "add_section_label", ln |-> 1090, left |-> 548640, top |-> 365760, color |-> "DC4A4A"],
     [h |-> "add_textbox", ln |-> 1092, left |-> 548640, top |-> 1097280, width |-> 4572000, height |-> 2286000, font_size |-> 84, color |-> "DC4A4A", italic |-> FALSE],
     [h |-> "add_textbox", ln |-> 1095, left |-> 548640, top |-> 3200400, width |-> 4572000, height |-> 457200, font_size |-> 18, color |-> "2D2D2D", italic |-> FALSE],
     [h |-> "add_accent_line", ln |-> 1099, left |-> 548640, top |-> 3749039, width |-> 3200400, color |-> "DC4A4A", height |-> 38100],
     [h |-> "add_multiline_textbox", ln |-> 1101, left |-> 548640, top |-> 4023360, width |-> 5029200, height |-> 1828800, lines |-> Plain(3), font_size |-> 13, color |-> "2D2D2D", italic |-> FALSE],
     [h |-> "add_textbox", ln |-> 1110, left |-> 6400800, top |-> 1371600, width |-> 5029200, height |-> 457200, font_size |-> 22, color |-> "DC4A4A", italic |-> FALSE],
     [h |-> "add_accent_line", ln |-> 1113, left |-> 6400800, top |-> 1920240, width |-> 1828800, color |-> "DC4A4A", height |-> 38100],
     [h |-> "add_textbox", ln |-> 1124, left |-> 6400800, top |-> 2286000, width |-> 2743200, height |-> 365760, font_size |-> 16, color |-> "2D2D2D", italic |-> FALSE],
     [h |-> "add_textbox", ln |-> 1126, left |-> 9144000, top |-> 2286000, width |-> 2286000, height |-> 365760, font_size |-> 16, color |-> "5B8C6B", italic |-> FALSE],
     [h |-> "add_textbox", ln |-> 1128, left |-> 6400800, top |-> 2606040, width |-> 5029200, height |-> 365760, font_size |-> 11, color |-> "8B8680", italic |-> TRUE],
     [h |-> "add_textbox", ln |-> 1124, left |-> 6400800, top |-> 3291840, width |-> 2743200, height |-> 365760, font_size |-> 16, color |-> "2D2D2D", italic |-> FALSE],
     [h |-> "add_textbox", ln |-> 1126, left |-> 9144000, top |-> 3291840, width |-> 2286000, height |-> 365760, font_size |-> 16, color |-> "C17F3A", italic |-> FALSE],
     [h |-> "add_textbox", ln |-> 1128, left |-> 6400800, top |-> 3611880, width |-> 5029200, height |-> 365760, font_size |-> 11, color |-> "8B8680", italic |-> TRUE],
     [h |-> "add_textbox", ln |-> 1124, left |-> 6400800, top |-> 4297680, width |-> 2743200, height |-> 365760, font_size |-> 16, color |-> "2D2D2D", italic |-> FALSE],
     [h |-> "add_textbox", ln |-> 1126, left |-> 9144000, top |-> 4297680, width |-> 2286000, height |-> 365760, font_size |-> 16, color |-> "DC4A4A", italic |-> FALSE],
     [h |-> "add_textbox", ln |-> 1128, left |-> 6400800, top |-> 4617720, width |-> 5029200, height |-> 365760, font_size |-> 11, color |-> "8B8680", italic |-> TRUE],
     [h |-> "add_textbox", ln |-> 1124, left |-> 6400800, top |-> 5303520, width |-> 2743200, height |-> 365760, font_size |-> 16, color |-> "2D2D2D", italic |-> FALSE],
     [h |-> "add_textbox", ln |-> 1126, left |-> 9144000, top |-> 5303520, width |-> 2286000, height |-> 365760, font_size |-> 16, color |-> "8B8680", italic |-> FALSE],
     [h |-> "add_textbox", ln |-> 1128, left |-> 6400800, top |-> 5623560, width |-> 5029200, height |-> 365760, font_size |-> 11, color |-> "8B8680", italic |-> TRUE],
     [h |-> "add_citation_strip", ln |-> 1131, dark_bg |-> FALSE] >>

\* build_presentation.py lines 1138-1194: the calls of slide 26 in execution order (loops unrolled, lengths in EMU)
bp_slide_26 ==
  << [h |-> "add_slide", ln |-> 1138],
     [h |-> "set_slide_bg", ln |-> 1139, color |-> "0D1117"],
     [h |-> "add_section_label", ln |-> 1141, left |-> 548640, top |-> 457200, color |-> "DC4A4A"],
     [h |-> "add_textbox", ln |-> 1143, left |-> 548640, top |-> 914400, width |-> 10972800, height |-> 640080, font_size |-> 30, color |-> "FFFFFF", italic |-> FALSE],
     [h |-> "add_accent_line", ln |-> 1146, left |-> 548640, top |-> 1645920, width |-> 2286000, color |-> "DC4A4A", height |-> 38100],
     [h |-> "add_shape_fill", ln |-> 1150, left |-> 457200, top |-> 2194560, width |-> 5303520, height |-> 3200400, color |-> "161B22"],
     [h |-> "add_textbox", ln |-> 1155, left |-> 640080, top |-> 2377440, width |-> 4937760, height |-> 457200, font_size |-> 20, color |-> "5B8C6B", italic |-> FALSE],
     [h |-> "add_multiline_textbox", ln |-> 1158, left |-> 640080, top |-> 2926080, width |-> 4937760, height |-> 2286000, lines |-> Plain(4), font_size |-> 13, color |-> "E8E4DE", italic |-> FALSE],
     [h |-> "add_shape_fill", ln |-> 1166, left |-> 6400800, top |-> 2194560, width |-> 5303520, height |-> 3200400, color |-> "161B22"],
     [h |-> "add_textbox", ln |-> 1171, left |-> 6583680, top |-> 2377440, width |-> 4937760, height |-> 457200, font_size |-> 20, color |-> "DC4A4A", italic |-> FALSE],
     [h |-> "add_multiline_textbox", ln |-> 1174, left |-> 6583680, top |-> 2926080, width |-> 4937760, height |-> 2286000, lines |-> Plain(4), font_size |-> 13, color |-> "E8E4DE", italic |-> FALSE],
     [h |-> "add_textbox", ln |-> 1182, left |-> 5394960, top |-> 3200400, width |-> 1371600, height |-> 731520, font_size |-> 28, color |-> "C17F3A", italic |-> FALSE],
     [h |-> "add_textbox", ln |-> 1186, left |-> 457200, top |-> 5577840, width |-> 11247120, height |-> 640080, font_size |-> 14, color |-> "E8E4DE", italic |-> TRUE],
     [h |-> "add_citation_strip", ln |-> 1191, dark_bg |-> TRUE] >>

\* build_presentation.py lines 1199-1243: the calls of slide 27 in execution order (loops unrolled, lengths in EMU)
bp_slide_27 ==
  << [h |-> "add_slide", ln |-> 1199],
     [h |-> "set_slide_bg", ln |-> 1200, color |-> "F7F5F0"],
     [h |-> "add_section_label", ln |-> 1202, left |-> 548640, top |-> 365760, color |-> "DC4A4A"],
     [h |-> "add_textbox", ln |-> 1204, left |-> 548640, top |-> 1097280, width |-> 4572000, height |-> 2286000, font_size |-> 84, color |-> "DC4A4A", italic |-> FALSE],
     [h |-> "add_textbox", ln |-> 1207, left |-> 548640, top |-> 3200400, width |-> 4572000, height |-> 731520, font_size |-> 18, color |-> "2D2D2D", italic |-> FALSE],
     [h |-> "add_accent_line", ln |-> 1211, left |-> 548640, top |-> 4023360, width |-> 3200400, color |-> "DC4A4A", height |-> 38100],
     [h |-> "add_multiline_textbox", ln |-> 1213, left |-> 548640, top |-> 4297680, width |-> 5029200, height |-> 1828800, lines |-> Plain(3), font_size |-> 13, color |-> "2D2D2D", italic |-> FALSE],
     [h |-> "add_textbox", ln |-> 1222, left |-> 6400800, top |-> 1371600, width |-> 5029200, height |-> 457200, font_size |-> 22, color |-> "DC4A4A", italic |-> FALSE],
     [h |-> "add_accent_line", ln |-> 1225, left |-> 6400800, top |-> 1920240, width |-> 1828800, color |-> "DC4A4A", height |-> 38100],
     [h |-> "add_textbox", ln |-> 1236, left |-> 6400800, top |-> 2286000, width |-> 5029200, height |-> 822960, font_size |-> 13, color |-> "2D2D2D", italic |-> FALSE],
     [h |-> "add_shape_fill", ln |-> 1239, left |-> 6400800, top |-> 3017520, width |-> 4572000, height |-> 6350, color |-> "8B8680"],
     [h |-> "add_textbox", ln |-> 1236, left |-> 6400800, top |-> 3291840, width |-> 5029200, height |-> 822960, font_size |-> 13, color |-> "2D2D2D", italic |-> FALSE],
     [h |-> "add_shape_fill", ln |-> 1239, left |-> 6400800, top |-> 4023360, width |-> 4572000, height |-> 6350, color |-> "8B8680"],
     [h |-> "add_textbox", ln |-> 1236, left |-> 6400800, top |-> 4297680, width |-> 5029200, height |-> 822960, font_size |-> 13, color |-> "2D2D2D", italic |-> FALSE],
     [h |-> "add_shape_fill", ln |-> 1239, left |-> 6400800, top |-> 5029200, width |-> 4572000, height |-> 6350, color |-> "8B8680"],
     [h |-> "add_textbox", ln |-> 1236, left |-> 6400800, top |-> 5303520, width |-> 5029200, height |-> 822960, font_size |-> 13, color |-> "2D2D2D", italic |-> FALSE],
     [h |-> "add_citation_strip", ln |-> 1241, dark_bg |-> FALSE] >>

\* build_presentation.py lines 1248-1289: the calls of slide 28 in execution order (loops unrolled, lengths in EMU)
bp_slide_28 ==
  << [h |-> "add_slide", ln |-> 1248],
     [h |-> "set_slide_bg", ln |-> 1249, color |-> "F7F5F0"],
     [h |-> "add_section_label", ln |-> 1251, left |-> 548640, top |-> 365760, color |-> "5B8C6B"],
     [h |-> "add_textbox", ln |-> 1253, left |-> 548640, top |-> 914400, width |-> 10972800, height |-> 548640, font_size |-> 30, color |-> "5B8C6B", italic |-> FALSE],
     [h |-> "add_accent_line", ln |-> 1256, left |-> 548640, top |-> 1554480, width |-> 2286000, color |-> "5B8C6B", height |-> 38100],
     [h |-> "add_textbox", ln |-> 1259, left |-> 548640, top |-> 2011680, width |-> 5029200, height |-> 457200, font_size |-> 20, color |-> "5B8C6B", italic |-> FALSE],
     [h |-> "add_multiline_textbox", ln |-> 1262, left |-> 548640, top |-> 2560320, width |-> 5029200, height |-> 3200400, lines |-> Plain(5), font_size |-> 13, color |-> "2D2D2D", italic |-> FALSE],
     [h |-> "add_shape_fill", ln |-> 1274, left |-> 5852160, top |-> 2011680, width |-> 19050, height |-> 3931920, color |-> "8B8680"],
     [h |-> "add_textbox", ln |-> 1277, left |-> 6217920, top |-> 2011680, width |-> 5486400, height |-> 457200, font_size |-> 20, color |-> "5B8C6B", italic |-> FALSE],
     [h |-> "safe_add_image", ln |-> 1280, img_file |-> <<"", "Graph.png">>, left |-> 6217920, top |-> 2560320, width |-> 5029200, height |-> 3200400],
     [h |-> "add_textbox", ln |-> 1283, left |-> 6217920, top |-> 5760720, width |-> 5029200, height |-> 457200, font_size |-> 11, color |-> "8B8680", italic |-> TRUE],
     [h |-> "add_citation_strip", ln |-> 1287, dark_bg |-> FALSE] >>

\* build_presentation.py lines 1294-1340: the calls of slide 29 in execution order (loops unrolled, lengths in EMU)
bp_slide_29 ==
  << [h |-> "add_slide", ln |-> 1294],
     [h |-> "set_slide_bg", ln |-> 1295, color |-> "0D1117"],
     [h |-> "add_section_label", ln |-> 1297, left |-> 548640, top |-> 457200, color |-> "5B8C6B"],
     [h |-> "add_textbox", ln |-> 1299, left |-> 548640, top |-> 914400, width |-> 10972800, height |-> 640080, font_size |-> 30, color |-> "FFFFFF", italic |-> FALSE],
     [h |-> "add_accent_line", ln |-> 1302, left |-> 548640, top |-> 1645920, width |-> 2286000, color |-> "5B8C6B", height |-> 38100],
     [h |-> "add_shape_fill", ln |-> 1321, left |-> 457200, top |-> 2194560, width |-> 3566160, height |-> 3474720, color |-> "161B22"],
     [h |-> "add_textbox", ln |-> 1326, left |-> 640080, top |-> 2377440, width |-> 3200400, height |-> 731520, font_size |-> 20, color |-> "5B8C6B", italic |-> FALSE],
     [h |-> "add_accent_line", ln |-> 1328, left |-> 640080, top |-> 3200400, width |-> 1371600, color |-> "5B8C6B", height |-> 38100],
     [h |-> "add_textbox", ln |-> 1329, left |-> 640080, top |-> 3383280, width |-> 3200400, height |-> 2011680, font_size |-> 12, color |-> "E8E4DE", italic |-> FALSE],
     [h |-> "add_shape_fill", ln |-> 1321, left |-> 4297680, top |-> 2194560, width |-> 3566160, height |-> 3474720, color |-> "161B22"],
     [h |-> "add_textbox", ln |-> 1326, left |-> 4480560, top |-> 2377440, width |-> 3200400, height |-> 731520, font_size |-> 20, color |-> "3B82B6", italic |-> FALSE],
     [h |-> "add_accent_line", ln |-> 1328, left |-> 4480560, top |-> 3200400, width |-> 1371600, color |-> "3B82B6", height |-> 38100],
     [h |-> "add_textbox", ln |-> 1329, left |-> 4480560, top |-> 3383280, width |-> 3200400, height |-> 2011680, font_size |-> 12, color |-> "E8E4DE", italic |-> FALSE],
     [h |-> "add_shape_fill", ln |-> 1321, left |-> 8138160, top |-> 2194560, width |-> 3566160, height |-> 3474720, color |-> "161B22"],
     [h |-> "add_textbox", ln |-> 1326, left |-> 8321040, top |-> 2377440, width |-> 3200400, height |-> 731520, font_size |-> 20, color |-> "C17F3A", italic |-> FALSE],
     [h |-> "add_accent_line", ln |-> 1328, left |-> 8321040, top |-> 3200400, width |-> 1371600, color |-> "C17F3A", height |-> 38100],
     [h |-> "add_textbox", ln |-> 1329, left |-> 8321040, top |-> 3383280, width |-> 3200400, height |-> 2011680, font_size |-> 12, color |-> "E8E4DE", italic |-> FALSE],
     [h |-> "add_textbox", ln |-> 1332, left |-> 457200, top |-> 5852160, width |-> 11247120, height |-> 457200, font_size |-> 14, color |-> "5B8C6B", italic |-> TRUE],
     [h |-> "add_citation_strip", ln |-> 1337, dark_bg |-> TRUE] >>

\* build_presentation.py lines 1345-1375: the calls of slide 30 in execution order (loops unrolled, lengths in EMU)
bp_slide_30 ==
  << [h |-> "add_slide", ln |-> 1345],
     [h |-> "set_slide_bg", ln |-> 1346, color |-> "0D1117"],
     [h |-> "add_textbox", ln |-> 1348, left |-> 914400, top |-> 1371600, width |-> 10058400, height |-> 914400, font_size |-> 36, color |-> "FFFFFF", italic |-> FALSE],
     [h |-> "add_accent_line", ln |-> 1352, left |-> 5029200, top |-> 2377440, width |-> 2103120, color |-> "C17F3A", height |-> 38100],
     [h |-> "add_textbox", ln |-> 1365, left |-> 1371600, top |-> 2743200, width |-> 731520, height |-> 457200, font_size |-> 32, color |-> "C17F3A", italic |-> FALSE],
     [h |-> "add_textbox", ln |-> 1367, left |-> 2286000, top |-> 2743200, width |-> 3657600, height |-> 365760, font_size |-> 18, color |-> "FFFFFF", italic |-> FALSE],
     [h |-> "add_textbox", ln |-> 1369, left |-> 2286000, top |-> 3154680, width |-> 8229600, height |-> 731520, font_size |-> 13, color |-> "E8E4DE", italic |-> FALSE],
     [h |-> "add_textbox", ln |-> 1365, left |-> 1371600, top |-> 4023360, width |-> 731520, height |-> 457200, font_size |-> 32, color |-> "C17F3A", italic |-> FALSE],
     [h |-> "add_textbox", ln |-> 1367, left |-> 2286000, top |-> 4023360, width |-> 3657600, height |-> 365760, font_size |-> 18, color |-> "FFFFFF", italic |-> FALSE],
     [h |-> "add_textbox", ln |-> 1369, left |-> 2286000, top |-> 4434840, width |-> 8229600, height |-> 731520, font_size |-> 13, color |-> "E8E4DE", italic |-> FALSE],
     [h |-> "add_textbox", ln |-> 1365, left |-> 1371600, top |-> 5303520, width |-> 731520, height |-> 457200, font_size |-> 32, color |-> "C17F3A", italic |-> FALSE],
     [h |-> "add_textbox", ln |-> 1367, left |-> 2286000, top |-> 5303520, width |-> 3657600, height |-> 365760, font_size |-> 18, color |-> "FFFFFF", italic |-> FALSE],
     [h |-> "add_textbox", ln |-> 1369, left |-> 2286000, top |-> 5715000, width |-> 8229600, height |-> 731520, font_size |-> 13, color |-> "E8E4DE", italic |-> FALSE],
     [h |-> "add_citation_strip", ln |-> 1372, dark_bg |-> TRUE] >>

\* Slide 31 with the citation strip added before the attribution text (C9
\* depends on the strip being the last call of the block).
bp_slide_31_strip_early ==
  << [h |-> "add_slide", ln |-> 1380],
     [h |-> "set_slide_bg", ln |-> 1381, color |-> "0D1117"],
     [h |-> "add_textbox", ln |-> 1383, left |-> 1371600, top |-> 1645920, width |-> 9418320, height |-> 1828800, font_size |-> 38, color |-> "FFFFFF", italic |-> FALSE],
     [h |-> "add_accent_line", ln |-> 1388, left |-> 5029200, top |-> 3840480, width |-> 2103120, color |-> "C17F3A", height |-> 38100],
     [h |-> "add_citation_strip", ln |-> 1397, dark_bg |-> TRUE],
     [h |-> "add_textbox", ln |-> 1390, left |-> 1828800, top |-> 4297680, width |-> 8503920, height |-> 1828800, font_size |-> 16, color |-> "E8E4DE", italic |-> TRUE] >>

\* build_presentation.py lines 1380-1398: the calls of slide 31 in execution order (loops unrolled, lengths in EMU)
bp_slide_31 ==
  << [h |-> "add_slide", ln |-> 1380],
     [h |-> "set_slide_bg", ln |-> 1381, color |-> "0D1117"],
     [h |-> "add_textbox", ln |-> 1383, left |-> 1371600, top |-> 1645920, width |-> 9418320, height |-> 1828800, font_size |-> 38, color |-> "FFFFFF", italic |-> FALSE],
     [h |-> "add_accent_line", ln |-> 1388, left |-> 5029200, top |-> 3840480, width |-> 2103120, color |-> "C17F3A", height |-> 38100],
     [h |-> "add_textbox", ln |-> 1390, left |-> 1828800, top |-> 4297680, width |-> 8503920, height |-> 1828800, font_size |-> 16, color |-> "E8E4DE", italic |-> TRUE],
     [h |-> "add_citation_strip", ln |-> 1397, dark_bg |-> TRUE] >>

\* build_presentation.py lines 1403-1432: the calls of slide 32 in execution order (loops unrolled, lengths in EMU)
bp_slide_32 ==
  << [h |-> "add_slide", ln |-> 1403],
     [h |-> "set_slide_bg", ln |-> 1404, color |-> "0D1117"],
     [h |-> "safe_add_image", ln |-> 1407, img_file |-> <<"", "logo_en.png">>, left |-> 5029200, top |-> 457200, width |-> 0, height |-> 1097280],
     [h |-> "add_accent_line", ln |-> 1410, left |-> 5029200, top |-> 1828800, width |-> 2103120, color |-> "C17F3A", height |-> 38100],
     [h |-> "add_textbox", ln |-> 1412, left |-> 914400, top |-> 2286000, width |-> 10332720, height |-> 1371600, font_size |-> 48, color |-> "FFFFFF", italic |-> FALSE],
     [h |-> "add_textbox", ln |-> 1416, left |-> 914400, top |-> 3657600, width |-> 10332720, height |-> 548640, font_size |-> 22, color |-> "C17F3A", italic |-> TRUE],
     [h |-> "add_accent_line", ln |-> 1420, left |-> 5029200, top |-> 4389120, width |-> 2103120, color |-> "C17F3A", height |-> 38100],
     [h |-> "add_multiline_textbox", ln |-> 1422, left |-> 2743200, top |-> 4754880, width |-> 6675120, height |-> 1371600, lines |-> Plain(3), font_size |-> 14, color |-> "8B8680", italic |-> FALSE],
     [h |-> "add_citation_strip", ln |-> 1429, dark_bg |-> TRUE] >>

\* build_presentation without its last slide block (C3 depends on the 32 blocks).
build_presentation_short ==
  << bp_slide_01, bp_slide_02, bp_slide_03, bp_slide_04, bp_slide_05, bp_slide_06, bp_slide_07, bp_slide_08,
     bp_slide_09, bp_slide_10, bp_slide_11, bp_slide_12, bp_slide_13, bp_slide_14, bp_slide_15, bp_slide_16,
     bp_slide_17, bp_slide_18, bp_slide_19, bp_slide_20, bp_slide_21, bp_slide_22, bp_slide_23, bp_slide_24,
     bp_slide_25, bp_slide_26, bp_slide_27, bp_slide_28, bp_slide_29, bp_slide_30, bp_slide_31 >>

\* build_presentation(): the slide blocks in source order (lines 159-1432)
build_presentation ==
  << bp_slide_01, bp_slide_02, bp_slide_03, bp_slide_04, bp_slide_05, bp_slide_06,
     bp_slide_07, bp_slide_08, bp_slide_09, bp_slide_10, bp_slide_11, bp_slide_12,
     bp_slide_13, bp_slide_14, bp_slide_15, bp_slide_16, bp_slide_17, bp_slide_18,
     bp_slide_19, bp_slide_20, bp_slide_21, bp_slide_22, bp_slide_23, bp_slide_24,
     bp_slide_25, bp_slide_26, bp_slide_27, bp_slide_28, bp_slide_29, bp_slide_30,
     bp_slide_31, bp_slide_32 >>

\* --------------------------------------------- create_presentation_v2.py slides
\* create_presentation_v2.py lines 406-433: the calls of slide_01_title(prs) in execution order
slide_01_title ==
  << [h |-> "add_slide", ln |-> 408],
     [h |-> "set_slide_bg", ln |-> 409, color |-> "0D1117"],
     [h |-> "add_image_safe", ln |-> 413, path |-> os_path_join(IMG_DIR, "logo_en.png"), left |-> 548640, top |-> 365760, width |-> 2560320, height |-> 0],
     [h |-> "add_accent_line", ln |-> 416, left |-> 548640, top |-> 2926080, width |-> 2743200, color |-> "C17F3A"],
     [h |-> "add_text_box", ln |-> 419, left |-> 548640, top |-> 3200400, width |-> 10058400, height |-> 1097280, font_size |-> 34, color |-> "E8E4DE", italic |-> FALSE],
     [h |-> "add_text_box", ln |-> 424, left |-> 548640, top |-> 4389120, width |-> 10058400, height |-> 731520, font_size |-> 20, color |-> "C17F3A", italic |-> TRUE],
     [h |-> "add_multiline_text", ln |-> 429, left |-> 548640, top |-> 5303520, width |-> 5486400, height |-> 1097280, lines |-> <<[dict |-> TRUE, size |-> 16, color |-> "E8E4DE", italic |-> FALSE], [dict |-> TRUE, size |-> 13, color |-> "8B8680", italic |-> FALSE], [dict |-> TRUE, size |-> 13, color |-> "8B8680", italic |-> FALSE]>>, font_size |-> 14, color |-> "2D2D2D"] >>

\* create_presentation_v2.py lines 436-468: the calls of slide_02_epidemic(prs, chart_path) in execution order
slide_02_epidemic(p_chart_path) ==
  << [h |-> "add_slide", ln |-> 438],
     [h |-> "set_slide_bg", ln |-> 439, color |-> "F7F5F0"],
     [h |-> "add_text_box", ln |-> 442, left |-> 731520, top |-> 365760, width |-> 2743200, height |-> 365760, font_size |-> 11, color |-> "C17F3A", italic |-> FALSE],
     [h |-> "add_text_box", ln |-> 446, left |-> 731520, top |-> 822960, width |-> 4572000, height |-> 1371600, font_size |-> 72, color |-> "0D1117", italic |-> FALSE],
     [h |-> "add_text_box", ln |-> 449, left |-> 731520, top |-> 2194560, width |-> 4572000, height |-> 457200, font_size |-> 18, color |-> "2D2D2D", italic |-> FALSE],
     [h |-> "add_multiline_text", ln |-> 460, left |-> 731520, top |-> 2926080, width |-> 4572000, height |-> 2286000, lines |-> <<[dict |-> TRUE, size |-> 14, color |-> "2D2D2D", italic |-> FALSE], [dict |-> TRUE, size |-> 14, color |-> "2D2D2D", italic |-> FALSE], [dict |-> TRUE, size |-> 14, color |-> "2D2D2D", italic |-> FALSE], [dict |-> TRUE, size |-> 14, color |-> "2D2D2D", italic |-> FALSE]>>, font_size |-> 14, color |-> "2D2D2D"],
     [h |-> "add_image_safe", ln |-> 466, path |-> p_chart_path, left |-> 5943600, top |-> 914400, width |-> 5669280, height |-> 0],
     [h |-> "add_citation", ln |-> 468, bg_dark |-> FALSE] >>

\* create_presentation_v2.py lines 471-526: the calls of slide_03_window_atn(prs) in execution order
slide_03_window_atn ==
  << [h |-> "add_slide", ln |-> 473],
     [h |-> "set_slide_bg", ln |-> 474, color |-> "0D1117"],
     [h |-> "add_text_box", ln |-> 477, left |-> 548640, top |-> 365760, width |-> 5486400, height |-> 365760, font_size |-> 11, color |-> "C17F3A", italic |-> FALSE],
     [h |-> "add_text_box", ln |-> 480, left |-> 548640, top |-> 914400, width |-> 5303520, height |-> 1371600, font_size |-> 26, color |-> "E8E4DE", italic |-> FALSE],
     [h |-> "add_multiline_text", ln |-> 484, left |-> 548640, top |-> 2560320, width |-> 5303520, height |-> 3200400, lines |-> <<[dict |-> TRUE, size |-> 15, color |-> "E8E4DE", italic |-> FALSE], [dict |-> TRUE, size |-> 8, color |-> "E8E4DE", italic |-> FALSE], [dict |-> TRUE, size |-> 15, color |-> "C17F3A", italic |-> FALSE], [dict |-> TRUE, size |-> 14, color |-> "E8E4DE", italic |-> FALSE], [dict |-> TRUE, size |-> 14, color |-> "E8E4DE", italic |-> FALSE], [dict |-> TRUE, size |-> 14, color |-> "E8E4DE", italic |-> FALSE]>>, font_size |-> 14, color |-> "2D2D2D"],
     [h |-> "add_shape_rect", ln |-> 498, left |-> 6035040, top |-> 457200, width |-> 25400, height |-> 5669280, fill_color |-> "C17F3A", border_color |-> ""],
     [h |-> "add_text_box", ln |-> 501, left |-> 6400800, top |-> 365760, width |-> 5486400, height |-> 365760, font_size |-> 11, color |-> "C17F3A", italic |-> FALSE],
     [h |-> "add_text_box", ln |-> 504, left |-> 6400800, top |-> 914400, width |-> 5029200, height |-> 731520, font_size |-> 22, color |-> "E8E4DE", italic |-> FALSE],
     [h |-> "add_rounded_rect", ln |-> 516, left |-> 6400800, top |-> 1828800, width |-> 822960, height |-> 1097280, fill_color |-> "3B82B6", border_color |-> ""],
     [h |-> "add_text_box", ln |-> 517, left |-> 6400800, top |-> 1965960, width |-> 822960, height |-> 822960, font_size |-> 28, color |-> "FFFFFF", italic |-> FALSE],
     [h |-> "add_text_box", ln |-> 520, left |-> 7406640, top |-> 1874520, width |-> 4114800, height |-> 365760, font_size |-> 16, color |-> "E8E4DE", italic |-> FALSE],
     [h |-> "add_text_box", ln |-> 522, left |-> 7406640, top |-> 2240280, width |-> 4114800, height |-> 640080, font_size |-> 12, color |-> "8B8680", italic |-> FALSE],
     [h |-> "add_rounded_rect", ln |-> 516, left |-> 6400800, top |-> 3200400, width |-> 822960, height |-> 1097280, fill_color |-> "C17F3A", border_color |-> ""],
     [h |-> "add_text_box", ln |-> 517, left |-> 6400800, top |-> 3337560, width |-> 822960, height |-> 822960, font_size |-> 28, color |-> "FFFFFF", italic |-> FALSE],
     [h |-> "add_text_box", ln |-> 520, left |-> 7406640, top |-> 3246120, width |-> 4114800, height |-> 365760, font_size |-> 16, color |-> "E8E4DE", italic |-> FALSE],
     [h |-> "add_text_box", ln |-> 522, left |-> 7406640, top |-> 3611880, width |-> 4114800, height |-> 640080, font_size |-> 12, color |-> "8B8680", italic |-> FALSE],
     [h |-> "add_rounded_rect", ln |-> 516, left |-> 6400800, top |-> 4572000, width |-> 822960, height |-> 1097280, fill_color |-> "DC4A4A", border_color |-> ""],
     [h |-> "add_text_box", ln |-> 517, left |-> 6400800, top |-> 4709160, width |-> 822960, height |-> 822960, font_size |-> 28, color |-> "FFFFFF", italic |-> FALSE],
     [h |-> "add_text_box", ln |-> 520, left |-> 7406640, top |-> 4617720, width |-> 4114800, height |-> 365760, font_size |-> 16, color |-> "E8E4DE", italic |-> FALSE],
     [h |-> "add_text_box", ln |-> 522, left |-> 7406640, top |-> 4983480, width |-> 4114800, height |-> 640080, font_size |-> 12, color |-> "8B8680", italic |-> FALSE],
     [h |-> "add_citation", ln |-> 526, bg_dark |-> TRUE] >>

\* create_presentation_v2.py lines 529-563: the calls of slide_04_neuroimaging(prs) in execution order
slide_04_neuroimaging ==
  << [h |-> "add_slide", ln |-> 531],
     [h |-> "set_slide_bg", ln |-> 532, color |-> "0D1117"],
     [h |-> "add_image_safe", ln |-> 536, path |-> os_path_join(IMG_DIR, "nihms-137059-f0004.jpg"), left |-> 5029200, top |-> 274320, width |-> 6858000, height |-> 0],
     [h |-> "add_shape_rect", ln |-> 539, left |-> 0, top |-> 0, width |-> 5486400, height |-> 6858000, fill_color |-> "0D1117", border_color |-> ""],
     [h |-> "add_text_box", ln |-> 541, left |-> 548640, top |-> 365760, width |-> 4572000, height |-> 365760, font_size |-> 11, color |-> "C17F3A", italic |-> FALSE],
     [h |-> "add_text_box", ln |-> 544, left |-> 548640, top |-> 914400, width |-> 4572000, height |-> 1097280, font_size |-> 32, color |-> "E8E4DE", italic |-> FALSE],
     [h |-> "add_accent_line", ln |-> 547, left |-> 548640, top |-> 2286000, width |-> 1828800, color |-> "C17F3A"],
     [h |-> "add_text_box", ln |-> 557, left |-> 548640, top |-> 2743200, width |-> 4572000, height |-> 320040, font_size |-> 16, color |-> "C17F3A", italic |-> FALSE],
     [h |-> "add_text_box", ln |-> 559, left |-> 548640, top |-> 3063240, width |-> 4572000, height |-> 365760, font_size |-> 13, color |-> "E8E4DE", italic |-> FALSE],
     [h |-> "add_text_box", ln |-> 557, left |-> 548640, top |-> 3611880, width |-> 4572000, height |-> 320040, font_size |-> 16, color |-> "C17F3A", italic |-> FALSE],
     [h |-> "add_text_box", ln |-> 559, left |-> 548640, top |-> 3931920, width |-> 4572000, height |-> 365760, font_size |-> 13, color |-> "E8E4DE", italic |-> FALSE],
     [h |-> "add_text_box", ln |-> 557, left |-> 548640, top |-> 4480560, width |-> 4572000, height |-> 320040, font_size |-> 16, color |-> "C17F3A", italic |-> FALSE],
     [h |-> "add_text_box", ln |-> 559, left |-> 548640, top |-> 4800600, width |-> 4572000, height |-> 365760, font_size |-> 13, color |-> "E8E4DE", italic |-> FALSE],
     [h |-> "add_text_box", ln |-> 557, left |-> 548640, top |-> 5349240, width |-> 4572000, height |-> 320040, font_size |-> 16, color |-> "C17F3A", italic |-> FALSE],
     [h |-> "add_text_box", ln |-> 559, left |-> 548640, top |-> 5669280, width |-> 4572000, height |-> 365760, font_size |-> 13, color |-> "E8E4DE", italic |-> FALSE],
     [h |-> "add_citation", ln |-> 563, bg_dark |-> TRUE] >>

\* create_presentation_v2.py lines 566-622: the calls of slide_05_datasets(prs) in execution order
slide_05_datasets ==
  << [h |-> "add_slide", ln |-> 568],
     [h |-> "set_slide_bg", ln |-> 569, color |-> "F7F5F0"],
     [h |-> "add_text_box", ln |-> 571, left |-> 548640, top |-> 365760, width |-> 4572000, height |-> 365760, font_size |-> 11, color |-> "C17F3A", italic |-> FALSE],
     [h |-> "add_text_box", ln |-> 574, left |-> 548640, top |-> 822960, width |-> 9144000, height |-> 731520, font_size |-> 28, color |-> "2D2D2D", italic |-> FALSE],
     [h |-> "add_accent_line", ln |-> 578, left |-> 548640, top |-> 1645920, width |-> 1828800, color |-> "C17F3A"],
     [h |-> "add_rounded_rect", ln |-> 609, left |-> 548640, top |-> 2011680, width |-> 3291840, height |-> 1097280, fill_color |-> "3B82B6", border_color |-> ""],
     [h |-> "add_text_box", ln |-> 610, left |-> 731520, top |-> 2103120, width |-> 2926080, height |-> 457200, font_size |-> 24, color |-> "FFFFFF", italic |-> FALSE],
     [h |-> "add_text_box", ln |-> 612, left |-> 731520, top |-> 2560320, width |-> 2926080, height |-> 457200, font_size |-> 11, color |-> "FFFFFF", italic |-> FALSE],
     [h |-> "add_text_box", ln |-> 618, left |-> 731520, top |-> 3383280, width |-> 3108960, height |-> 320040, font_size |-> 13, color |-> "2D2D2D", italic |-> FALSE],
     [h |-> "add_text_box", ln |-> 618, left |-> 731520, top |-> 3749040, width |-> 3108960, height |-> 320040, font_size |-> 13, color |-> "2D2D2D", italic |-> FALSE],
     [h |-> "add_text_box", ln |-> 618, left |-> 731520, top |-> 4114800, width |-> 3108960, height |-> 320040, font_size |-> 13, color |-> "2D2D2D", italic |-> FALSE],
     [h |-> "add_text_box", ln |-> 618, left |-> 731520, top |-> 4480560, width |-> 3108960, height |-> 320040, font_size |-> 13, color |-> "2D2D2D", italic |-> FALSE],
     [h |-> "add_rounded_rect", ln |-> 609, left |-> 4297680, top |-> 2011680, width |-> 3291840, height |-> 1097280, fill_color |-> "C17F3A", border_color |-> ""],
     [h |-> "add_text_box", ln |-> 610, left |-> 4480560, top |-> 2103120, width |-> 2926080, height |-> 457200, font_size |-> 24, color |-> "FFFFFF", italic |-> FALSE],
     [h |-> "add_text_box", ln |-> 612, left |-> 4480560, top |-> 2560320, width |-> 2926080, height |-> 457200, font_size |-> 11, color |-> "FFFFFF", italic |-> FALSE],
     [h |-> "add_text_box", ln |-> 618, left |-> 4480560, top |-> 3383280, width |-> 3108960, height |-> 320040, font_size |-> 13, color |-> "2D2D2D", italic |-> FALSE],
     [h |-> "add_text_box", ln |-> 618, left |-> 4480560, top |-> 3749040, width |-> 3108960, height |-> 320040, font_size |-> 13, color |-> "2D2D2D", italic |-> FALSE],
     [h |-> "add_text_box", ln |-> 618, left |-> 4480560, top |-> 4114800, width |-> 3108960, height |-> 320040, font_size |-> 13, color |-> "2D2D2D", italic |-> FALSE],
     [h |-> "add_text_box", ln |-> 618, left |-> 4480560, top |-> 4480560, width |-> 3108960, height |-> 320040, font_size |-> 13, color |-> "2D2D2D", italic |-> FALSE],
     [h |-> "add_rounded_rect", ln |-> 609, left |-> 8046720, top |-> 2011680, width |-> 3291840, height |-> 1097280, fill_color |-> "5B8C6B", border_color |-> ""],
     [h |-> "add_text_box", ln |-> 610, left |-> 8229600, top |-> 2103120, width |-> 2926080, height |-> 457200, font_size |-> 24, color |-> "FFFFFF", italic |-> FALSE],
     [h |-> "add_text_box", ln |-> 612, left |-> 8229600, top |-> 2560320, width |-> 2926080, height |-> 457200, font_size |-> 11, color |-> "FFFFFF", italic |-> FALSE],
     [h |-> "add_text_box", ln |-> 618, left |-> 8229600, top |-> 3383280, width |-> 3108960, height |-> 320040, font_size |-> 13, color |-> "2D2D2D", italic |-> FALSE],
     [h |-> "add_text_box", ln |-> 618, left |-> 8229600, top |-> 3749040, width |-> 3108960, height |-> 320040, font_size |-> 13, color |-> "2D2D2D", italic |-> FALSE],
     [h |-> "add_text_box", ln |-> 618, left |-> 8229600, top |-> 4114800, width |-> 3108960, height |-> 320040, font_size |-> 13, color |-> "2D2D2D", italic |-> FALSE],
     [h |-> "add_text_box", ln |-> 618, left |-> 8229600, top |-> 4480560, width |-> 3108960, height |-> 320040, font_size |-> 13, color |-> "2D2D2D", italic |-> FALSE],
     [h |-> "add_citation", ln |-> 622, bg_dark |-> FALSE] >>

\* create_presentation_v2.py lines 625-641: the calls of slide_06_section_divider(prs) in execution order
slide_06_section_divider ==
  << [h |-> "add_slide", ln |-> 627],
     [h |-> "set_slide_bg", ln |-> 628, color |-> "0D1117"],
     [h |-> "add_text_box", ln |-> 630, left |-> 731520, top |-> 457200, width |-> 3657600, height |-> 365760, font_size |-> 11, color |-> "C17F3A", italic |-> FALSE],
     [h |-> "add_accent_line", ln |-> 633, left |-> 731520, top |-> 2560320, width |-> 3657600, color |-> "C17F3A"],
     [h |-> "add_text_box", ln |-> 635, left |-> 731520, top |-> 2926080, width |-> 10058400, height |-> 1371600, font_size |-> 52, color |-> "E8E4DE", italic |-> FALSE],
     [h |-> "add_text_box", ln |-> 639, left |-> 731520, top |-> 4389120, width |-> 9144000, height |-> 731520, font_size |-> 18, color |-> "8B8680", italic |-> TRUE] >>

\* create_presentation_v2.py lines 644-676: the calls of slide_07_mri_fundamentals(prs) in execution order
slide_07_mri_fundamentals ==
  << [h |-> "add_slide", ln |-> 646],
     [h |-> "set_slide_bg", ln |-> 647, color |-> "0D1117"],
     [h |-> "add_image_safe", ln |-> 651, path |-> os_path_join(IMG_DIR, "IntensityNormalization1.png"), left |-> 6400800, top |-> 457200, width |-> 5303520, height |-> 0],
     [h |-> "add_text_box", ln |-> 653, left |-> 548640, top |-> 365760, width |-> 5486400, height |-> 365760, font_size |-> 11, color |-> "C17F3A", italic |-> FALSE],
     [h |-> "add_text_box", ln |-> 656, left |-> 548640, top |-> 914400, width |-> 5486400, height |-> 914400, font_size |-> 28, color |-> "E8E4DE", italic |-> FALSE],
     [h |-> "add_accent_line", ln |-> 660, left |-> 548640, top |-> 1828800, width |-> 1828800, color |-> "C17F3A"],
     [h |-> "add_text_box", ln |-> 672, left |-> 548640, top |-> 2194560, width |-> 5669280, height |-> 365760, font_size |-> 14, color |-> "E8E4DE", italic |-> FALSE],
     [h |-> "add_text_box", ln |-> 672, left |-> 548640, top |-> 2697480, width |-> 5669280, height |-> 365760, font_size |-> 14, color |-> "E8E4DE", italic |-> FALSE],
     [h |-> "add_text_box", ln |-> 672, left |-> 548640, top |-> 3200400, width |-> 5669280, height |-> 365760, font_size |-> 14, color |-> "E8E4DE", italic |-> FALSE],
     [h |-> "add_text_box", ln |-> 672, left |-> 548640, top |-> 3703320, width |-> 5669280, height |-> 365760, font_size |-> 14, color |-> "E8E4DE", italic |-> FALSE],
     [h |-> "add_text_box", ln |-> 672, left |-> 548640, top |-> 4206240, width |-> 5669280, height |-> 365760, font_size |-> 14, color |-> "E8E4DE", italic |-> FALSE],
     [h |-> "add_text_box", ln |-> 672, left |-> 548640, top |-> 4709160, width |-> 5669280, height |-> 365760, font_size |-> 14, color |-> "E8E4DE", italic |-> FALSE],
     [h |-> "add_citation", ln |-> 676, bg_dark |-> TRUE] >>

\* create_presentation_v2.py lines 679-727: the calls of slide_08_beyond_mri(prs) in execution order
slide_08_beyond_mri ==
  << [h |-> "add_slide", ln |-> 681],
     [h |-> "set_slide_bg", ln |-> 682, color |-> "F7F5F0"],
     [h |-> "add_text_box", ln |-> 684, left |-> 548640, top |-> 365760, width |-> 5486400, height |-> 365760, font_size |-> 11, color |-> "C17F3A", italic |-> FALSE],
     [h |-> "add_text_box", ln |-> 687, left |-> 548640, top |-> 822960, width |-> 9144000, height |-> 640080, font_size |-> 28, color |-> "2D2D2D", italic |-> FALSE],
     [h |-> "add_text_box", ln |-> 691, left |-> 548640, top |-> 1645920, width |-> 5303520, height |-> 457200, font_size |-> 18, color |-> "3B82B6", italic |-> FALSE],
     [h |-> "add_image_safe", ln |-> 695, path |-> os_path_join(IMG_DIR, "pmp-32-1-1-f1.png"), left |-> 548640, top |-> 2194560, width |-> 2743200, height |-> 0],
     [h |-> "add_text_box", ln |-> 701, left |-> 3474720, top |-> 2286000, width |-> 2377440, height |-> 320040, font_size |-> 12, color |-> "2D2D2D", italic |-> FALSE],
     [h |-> "add_text_box", ln |-> 701, left |-> 3474720, top |-> 2670048, width |-> 2377440, height |-> 320040, font_size |-> 12, color |-> "2D2D2D", italic |-> FALSE],
     [h |-> "add_text_box", ln |-> 701, left |-> 3474720, top |-> 3054096, width |-> 2377440, height |-> 320040, font_size |-> 12, color |-> "2D2D2D", italic |-> FALSE],
     [h |-> "add_text_box", ln |-> 701, left |-> 3474720, top |-> 3438144, width |-> 2377440, height |-> 320040, font_size |-> 12, color |-> "2D2D2D", italic |-> FALSE],
     [h |-> "add_shape_rect", ln |-> 706, left |-> 5943600, top |-> 1645920, width |-> 25400, height |-> 4389120, fill_color |-> "C17F3A", border_color |-> ""],
     [h |-> "add_text_box", ln |-> 709, left |-> 6400800, top |-> 1645920, width |-> 5303520, height |-> 457200, font_size |-> 18, color |-> "C17F3A", italic |-> FALSE],
     [h |-> "add_image_safe", ln |-> 713, path |-> os_path_join(IMG_DIR, "pmp-32-1-1-f4.png"), left |-> 6400800, top |-> 2194560, width |-> 2743200, height |-> 0],
     [h |-> "add_text_box", ln |-> 723, left |-> 9326880, top |-> 2286000, width |-> 2377440, height |-> 320040, font_size |-> 12, color |-> "2D2D2D", italic |-> FALSE],
     [h |-> "add_text_box", ln |-> 723, left |-> 9326880, top |-> 2670048, width |-> 2377440, height |-> 320040, font_size |-> 12, color |-> "2D2D2D", italic |-> FALSE],
     [h |-> "add_text_box", ln |-> 723, left |-> 9326880, top |-> 3054096, width |-> 2377440, height |-> 320040, font_size |-> 12, color |-> "2D2D2D", italic |-> FALSE],
     [h |-> "add_text_box", ln |-> 723, left |-> 9326880, top |-> 3438144, width |-> 2377440, height |-> 320040, font_size |-> 12, color |-> "2D2D2D", italic |-> FALSE],
     [h |-> "add_citation", ln |-> 727, bg_dark |-> FALSE] >>

\* create_presentation_v2.py lines 730-774: the calls of slide_09_preprocessing(prs) in execution order
slide_09_preprocessing ==
  << [h |-> "add_slide", ln |-> 732],
     [h |-> "set_slide_bg", ln |-> 733, color |-> "0D1117"],
     [h |-> "add_text_box", ln |-> 735, left |-> 548640, top |-> 365760, width |-> 5486400, height |-> 365760, font_size |-> 11, color |-> "C17F3A", italic |-> FALSE],
     [h |-> "add_text_box", ln |-> 738, left |-> 548640, top |-> 822960, width |-> 10058400, height |-> 640080, font_size |-> 28, color |-> "E8E4DE", italic |-> FALSE],
     [h |-> "add_rounded_rect", ln |-> 753, left |-> 365760, top |-> 2286000, width |-> 2103120, height |-> 3474720, fill_color |-> "1A1F2B", border_color |-> "3B82B6"],
     [h |-> "add_text_box", ln |-> 756, left |-> 365760, top |-> 2377440, width |-> 2103120, height |-> 640080, font_size |-> 36, color |-> "3B82B6", italic |-> FALSE],
     [h |-> "add_text_box", ln |-> 760, left |-> 502920, top |-> 3108960, width |-> 1828800, height |-> 731520, font_size |-> 15, color |-> "E8E4DE", italic |-> FALSE],
     [h |-> "add_text_box", ln |-> 764, left |-> 502920, top |-> 3931920, width |-> 1828800, height |-> 1097280, font_size |-> 11, color |-> "8B8680", italic |-> FALSE],
     [h |-> "add_text_box", ln |-> 769, left |-> 2423160, top |-> 3474720, width |-> 320040, height |-> 457200, font_size |-> 24, color |-> "C17F3A", italic |-> FALSE],
     [h |-> "add_rounded_rect", ln |-> 753, left |-> 2697480, top |-> 2286000, width |-> 2103120, height |-> 3474720, fill_color |-> "1A1F2B", border_color |-> "C17F3A"],
     [h |-> "add_text_box", ln |-> 756, left |-> 2697480, top |-> 2377440, width |-> 2103120, height |-> 640080, font_size |-> 36, color |-> "C17F3A", italic |-> FALSE],
     [h |-> "add_text_box", ln |-> 760, left |-> 2834640, top |-> 3108960, width |-> 1828800, height |-> 731520, font_size |-> 15, color |-> "E8E4DE", italic |-> FALSE],
     [h |-> "add_text_box", ln |-> 764, left |-> 2834640, top |-> 3931920, width |-> 1828800, height |-> 1097280, font_size |-> 11, color |-> "8B8680", italic |-> FALSE],
     [h |-> "add_text_box", ln |-> 769, left |-> 4754880, top |-> 3474720, width |-> 320040, height |-> 457200, font_size |-> 24, color |-> "C17F3A", italic |-> FALSE],
     [h |-> "add_rounded_rect", ln |-> 753, left |-> 5029200, top |-> 2286000, width |-> 2103120, height |-> 3474720, fill_color |-> "1A1F2B", border_color |-> "5B8C6B"],
     [h |-> "add_text_box", ln |-> 756, left |-> 5029200, top |-> 2377440, width |-> 2103120, height |-> 640080, font_size |-> 36, color |-> "5B8C6B", italic |-> FALSE],
     [h |-> "add_text_box", ln |-> 760, left |-> 5166360, top |-> 3108960, width |-> 1828800, height |-> 731520, font_size |-> 15, color |-> "E8E4DE", italic |-> FALSE],
     [h |-> "add_text_box", ln |-> 764, left |-> 5166360, top |-> 3931920, width |-> 1828800, height |-> 1097280, font_size |-> 11, color |-> "8B8680", italic |-> FALSE],
     [h |-> "add_text_box", ln |-> 769, left |-> 7086600, top |-> 3474720, width |-> 320040, height |-> 457200, font_size |-> 24, color |-> "C17F3A", italic |-> FALSE],
     [h |-> "add_rounded_rect", ln |-> 753, left |-> 7360920, top |-> 2286000, width |-> 2103120, height |-> 3474720, fill_color |-> "1A1F2B", border_color |-> "DC4A4A"],
     [h |-> "add_text_box", ln |-> 756, left |-> 7360920, top |-> 2377440, width |-> 2103120, height |-> 640080, font_size |-> 36, color |-> "DC4A4A", italic |-> FALSE],
     [h |-> "add_text_box", ln |-> 760, left |-> 7498080, top |-> 3108960, width |-> 1828800, height |-> 731520, font_size |-> 15, color |-> "E8E4DE", italic |-> FALSE],
     [h |-> "add_text_box", ln |-> 764, left |-> 7498080, top |-> 3931920, width |-> 1828800, height |-> 1097280, font_size |-> 11, color |-> "8B8680", italic |-> FALSE],
     [h |-> "add_text_box", ln |-> 769, left |-> 9418320, top |-> 3474720, width |-> 320040, height |-> 457200, font_size |-> 24, color |-> "C17F3A", italic |-> FALSE],
     [h |-> "add_rounded_rect", ln |-> 753, left |-> 9692640, top |-> 2286000, width |-> 2103120, height |-> 3474720, fill_color |-> "1A1F2B", border_color |-> "3B82B6"],
     [h |-> "add_text_box", ln |-> 756, left |-> 9692640, top |-> 2377440, width |-> 2103120, height |-> 640080, font_size |-> 36, color |-> "3B82B6", italic |-> FALSE],
     [h |-> "add_text_box", ln |-> 760, left |-> 9829800, top |-> 3108960, width |-> 1828800, height |-> 731520, font_size |-> 15, color |-> "E8E4DE", italic |-> FALSE],
     [h |-> "add_text_box", ln |-> 764, left |-> 9829800, top |-> 3931920, width |-> 1828800, height |-> 1097280, font_size |-> 11, color |-> "8B8680", italic |-> FALSE],
     [h |-> "add_citation", ln |-> 774, bg_dark |-> TRUE] >>

\* create_presentation_v2.py lines 777-823: the calls of slide_10_signal_cleaning(prs) in execution order
slide_10_signal_cleaning ==
  << [h |-> "add_slide", ln |-> 779],
     [h |-> "set_slide_bg", ln |-> 780, color |-> "F7F5F0"],
     [h |-> "add_text_box", ln |-> 782, left |-> 548640, top |-> 365760, width |-> 5486400, height |-> 365760, font_size |-> 11, color |-> "C17F3A", italic |-> FALSE],
     [h |-> "add_text_box", ln |-> 785, left |-> 548640, top |-> 822960, width |-> 10058400, height |-> 640080, font_size |-> 28, color |-> "2D2D2D", italic |-> FALSE],
     [h |-> "add_text_box", ln |-> 789, left |-> 548640, top |-> 1645920, width |-> 5486400, height |-> 457200, font_size |-> 18, color |-> "3B82B6", italic |-> FALSE],
     [h |-> "add_image_safe", ln |-> 793, path |-> os_path_join(IMG_DIR, "IntensityNormalization2.png"), left |-> 548640, top |-> 2194560, width |-> 5303520, height |-> 0],
     [h |-> "add_text_box", ln |-> 800, left |-> 548640, top |-> 4572000, width |-> 5303520, height |-> 320040, font_size |-> 12, color |-> "2D2D2D", italic |-> FALSE],
     [h |-> "add_text_box", ln |-> 800, left |-> 548640, top |-> 4919472, width |-> 5303520, height |-> 320040, font_size |-> 12, color |-> "2D2D2D", italic |-> FALSE],
     [h |-> "add_text_box", ln |-> 800, left |-> 548640, top |-> 5266944, width |-> 5303520, height |-> 320040, font_size |-> 12, color |-> "2D2D2D", italic |-> FALSE],
     [h |-> "add_shape_rect", ln |-> 805, left |-> 6035040, top |-> 1645920, width |-> 25400, height |-> 4389120, fill_color |-> "C17F3A", border_color |-> ""],
     [h |-> "add_text_box", ln |-> 808, left |-> 6400800, top |-> 1645920, width |-> 5303520, height |-> 457200, font_size |-> 18, color |-> "C17F3A", italic |-> FALSE],
     [h |-> "add_image_safe", ln |-> 812, path |-> os_path_join(IMG_DIR, "IntensityNormalization3.png"), left |-> 6400800, top |-> 2194560, width |-> 5303520, height |-> 0],
     [h |-> "add_text_box", ln |-> 819, left |-> 6400800, top |-> 4572000, width |-> 5303520, height |-> 320040, font_size |-> 12, color |-> "2D2D2D", italic |-> FALSE],
     [h |-> "add_text_box", ln |-> 819, left |-> 6400800, top |-> 4919472, width |-> 5303520, height |-> 320040, font_size |-> 12, color |-> "2D2D2D", italic |-> FALSE],
     [h |-> "add_text_box", ln |-> 819, left |-> 6400800, top |-> 5266944, width |-> 5303520, height |-> 320040, font_size |-> 12, color |-> "2D2D2D", italic |-> FALSE],
     [h |-> "add_citation", ln |-> 823, bg_dark |-> FALSE] >>

\* create_presentation_v2.py lines 826-872: the calls of slide_11_skull_stripping(prs) in execution order
slide_11_skull_stripping ==
  << [h |-> "add_slide", ln |-> 828],
     [h |-> "set_slide_bg", ln |-> 829, color |-> "0D1117"],
     [h |-> "add_image_safe", ln |-> 833, path |-> os_path_join(IMG_DIR, "Skull Stripping image.png"), left |-> 5943600, top |-> 274320, width |-> 5943600, height |-> 0],
     [h |-> "add_shape_rect", ln |-> 836, left |-> 0, top |-> 0, width |-> 6400800, height |-> 6858000, fill_color |-> "0D1117", border_color |-> ""],
     [h |-> "add_text_box", ln |-> 838, left |-> 548640, top |-> 365760, width |-> 5486400, height |-> 365760, font_size |-> 11, color |-> "C17F3A", italic |-> FALSE],
     [h |-> "add_text_box", ln |-> 841, left |-> 548640, top |-> 914400, width |-> 5486400, height |-> 914400, font_size |-> 28, color |-> "E8E4DE", italic |-> FALSE],
     [h |-> "add_accent_line", ln |-> 844, left |-> 548640, top |-> 1828800, width |-> 1828800, color |-> "C17F3A"],
     [h |-> "add_text_box", ln |-> 853, left |-> 548640, top |-> 2286000, width |-> 1828800, height |-> 365760, font_size |-> 16, color |-> "C17F3A", italic |-> FALSE],
     [h |-> "add_text_box", ln |-> 855, left |-> 2560320, top |-> 2286000, width |-> 3291840, height |-> 365760, font_size |-> 13, color |-> "E8E4DE", italic |-> FALSE],
     [h |-> "add_text_box", ln |-> 853, left |-> 548640, top |-> 2788920, width |-> 1828800, height |-> 365760, font_size |-> 16, color |-> "C17F3A", italic |-> FALSE],
     [h |-> "add_text_box", ln |-> 855, left |-> 2560320, top |-> 2788920, width |-> 3291840, height |-> 365760, font_size |-> 13, color |-> "E8E4DE", italic |-> FALSE],
     [h |-> "add_text_box", ln |-> 853, left |-> 548640, top |-> 3291840, width |-> 1828800, height |-> 365760, font_size |-> 16, color |-> "C17F3A", italic |-> FALSE],
     [h |-> "add_text_box", ln |-> 855, left |-> 2560320, top |-> 3291840, width |-> 3291840, height |-> 365760, font_size |-> 13, color |-> "E8E4DE", italic |-> FALSE],
     [h |-> "add_rounded_rect", ln |-> 860, left |-> 548640, top |-> 4114800, width |-> 5303520, height |-> 1371600, fill_color |-> "1A1F2B", border_color |-> "DC4A4A"],
     [h |-> "add_text_box", ln |-> 862, left |-> 822960, top |-> 4206240, width |-> 4754880, height |-> 365760, font_size |-> 14, color |-> "DC4A4A", italic |-> FALSE],
     [h |-> "add_text_box", ln |-> 864, left |-> 822960, top |-> 4572000, width |-> 4754880, height |-> 731520, font_size |-> 12, color |-> "E8E4DE", italic |-> FALSE],
     [h |-> "add_image_safe", ln |-> 870, path |-> os_path_join(IMG_DIR, "Skull Stripping Techniques.png"), left |-> 548640, top |-> 5577840, width |-> 5303520, height |-> 0],
     [h |-> "add_citation", ln |-> 872, bg_dark |-> TRUE] >>

\* create_presentation_v2.py lines 875-909: the calls of slide_12_vbm(prs) in execution order
slide_12_vbm ==
  << [h |-> "add_slide", ln |-> 877],
     [h |-> "set_slide_bg", ln |-> 878, color |-> "0D1117"],
     [h |-> "add_image_safe", ln |-> 882, path |-> os_path_join(IMG_DIR, "nihms154848f1.jpg"), left |-> 5029200, top |-> 0, width |-> 7132320, height |-> 0],
     [h |-> "add_shape_rect", ln |-> 885, left |-> 0, top |-> 0, width |-> 5669280, height |-> 6858000, fill_color |-> "0D1117", border_color |-> ""],
     [h |-> "add_text_box", ln |-> 887, left |-> 548640, top |-> 365760, width |-> 4572000, height |-> 365760, font_size |-> 11, color |-> "C17F3A", italic |-> FALSE],
     [h |-> "add_text_box", ln |-> 890, left |-> 548640, top |-> 914400, width |-> 4937760, height |-> 914400, font_size |-> 28, color |-> "E8E4DE", italic |-> FALSE],
     [h |-> "add_accent_line", ln |-> 894, left |-> 548640, top |-> 2103120, width |-> 1828800, color |-> "C17F3A"],
     [h |-> "add_text_box", ln |-> 905, left |-> 548640, top |-> 2560320, width |-> 4937760, height |-> 457200, font_size |-> 14, color |-> "E8E4DE", italic |-> FALSE],
     [h |-> "add_text_box", ln |-> 905, left |-> 548640, top |-> 3108960, width |-> 4937760, height |-> 457200, font_size |-> 14, color |-> "E8E4DE", italic |-> FALSE],
     [h |-> "add_text_box", ln |-> 905, left |-> 548640, top |-> 3657600, width |-> 4937760, height |-> 457200, font_size |-> 14, color |-> "E8E4DE", italic |-> FALSE],
     [h |-> "add_text_box", ln |-> 905, left |-> 548640, top |-> 4206240, width |-> 4937760, height |-> 457200, font_size |-> 14, color |-> "E8E4DE", italic |-> FALSE],
     [h |-> "add_text_box", ln |-> 905, left |-> 548640, top |-> 4754880, width |-> 4937760, height |-> 457200, font_size |-> 14, color |-> "E8E4DE", italic |-> FALSE],
     [h |-> "add_citation", ln |-> 909, bg_dark |-> TRUE] >>

\* create_presentation_v2.py lines 912-946: the calls of slide_13_classical_ml(prs, chart_path) in execution order
slide_13_classical_ml(p_chart_path) ==
  << [h |-> "add_slide", ln |-> 914],
     [h |-> "set_slide_bg", ln |-> 915, color |-> "F7F5F0"],
     [h |-> "add_text_box", ln |-> 917, left |-> 548640, top |-> 365760, width |-> 5486400, height |-> 365760, font_size |-> 11, color |-> "C17F3A", italic |-> FALSE],
     [h |-> "add_text_box", ln |-> 921, left |-> 548640, top |-> 822960, width |-> 4572000, height |-> 1371600, font_size |-> 72, color |-> "3B82B6", italic |-> FALSE],
     [h |-> "add_text_box", ln |-> 924, left |-> 548640, top |-> 2103120, width |-> 4572000, height |-> 457200, font_size |-> 18, color |-> "2D2D2D", italic |-> FALSE],
     [h |-> "add_text_box", ln |-> 927, left |-> 548640, top |-> 2743200, width |-> 4572000, height |-> 457200, font_size |-> 16, color |-> "DC4A4A", italic |-> FALSE],
     [h |-> "add_text_box", ln |-> 939, left |-> 548640, top |-> 3383280, width |-> 5029200, height |-> 365760, font_size |-> 13, color |-> "2D2D2D", italic |-> FALSE],
     [h |-> "add_text_box", ln |-> 939, left |-> 548640, top |-> 3794760, width |-> 5029200, height |-> 365760, font_size |-> 13, color |-> "2D2D2D", italic |-> FALSE],
     [h |-> "add_text_box", ln |-> 939, left |-> 548640, top |-> 4206240, width |-> 5029200, height |-> 365760, font_size |-> 13, color |-> "2D2D2D", italic |-> FALSE],
     [h |-> "add_text_box", ln |-> 939, left |-> 548640, top |-> 4617720, width |-> 5029200, height |-> 365760, font_size |-> 13, color |-> "2D2D2D", italic |-> FALSE],
     [h |-> "add_text_box", ln |-> 939, left |-> 548640, top |-> 5029200, width |-> 5029200, height |-> 365760, font_size |-> 13, color |-> "2D2D2D", italic |-> FALSE],
     [h |-> "add_image_safe", ln |-> 944, path |-> p_chart_path, left |-> 5943600, top |-> 731520, width |-> 5760720, height |-> 0],
     [h |-> "add_citation", ln |-> 946, bg_dark |-> FALSE] >>

\* create_presentation_v2.py lines 949-1012: the calls of slide_14_cnns_to_transformers(prs) in execution order
slide_14_cnns_to_transformers ==
  << [h |-> "add_slide", ln |-> 951],
     [h |-> "set_slide_bg", ln |-> 952, color |-> "F7F5F0"],
     [h |-> "add_text_box", ln |-> 954, left |-> 548640, top |-> 365760, width |-> 5486400, height |-> 365760, font_size |-> 11, color |-> "C17F3A", italic |-> FALSE],
     [h |-> "add_text_box", ln |-> 957, left |-> 548640, top |-> 822960, width |-> 10058400, height |-> 640080, font_size |-> 28, color |-> "2D2D2D", italic |-> FALSE],
     [h |-> "add_text_box", ln |-> 961, left |-> 548640, top |-> 1645920, width |-> 5303520, height |-> 457200, font_size |-> 18, color |-> "3B82B6", italic |-> FALSE],
     [h |-> "add_rich_text", ln |-> 973, left |-> 548640, top |-> 2194560, width |-> 5303520, height |-> 457200],
     [h |-> "add_rich_text", ln |-> 973, left |-> 548640, top |-> 2651760, width |-> 5303520, height |-> 457200],
     [h |-> "add_rich_text", ln |-> 973, left |-> 548640, top |-> 3108960, width |-> 5303520, height |-> 457200],
     [h |-> "add_rich_text", ln |-> 973, left |-> 548640, top |-> 3566160, width |-> 5303520, height |-> 457200],
     [h |-> "add_rich_text", ln |-> 973, left |-> 548640, top |-> 4023360, width |-> 5303520, height |-> 457200],
     [h |-> "add_shape_rect", ln |-> 980, left |-> 5943600, top |-> 1645920, width |-> 25400, height |-> 4389120, fill_color |-> "C17F3A", border_color |-> ""],
     [h |-> "add_text_box", ln |-> 983, left |-> 6400800, top |-> 1645920, width |-> 5303520, height |-> 457200, font_size |-> 18, color |-> "C17F3A", italic |-> FALSE],
     [h |-> "add_rich_text", ln |-> 995, left |-> 6400800, top |-> 2194560, width |-> 5303520, height |-> 457200],
     [h |-> "add_rich_text", ln |-> 995, left |-> 6400800, top |-> 2651760, width |-> 5303520, height |-> 457200],
     [h |-> "add_rich_text", ln |-> 995, left |-> 6400800, top |-> 3108960, width |-> 5303520, height |-> 457200],
     [h |-> "add_rich_text", ln |-> 995, left |-> 6400800, top |-> 3566160, width |-> 5303520, height |-> 457200],
     [h |-> "add_rich_text", ln |-> 995, left |-> 6400800, top |-> 4023360, width |-> 5303520, height |-> 457200],
     [h |-> "add_rounded_rect", ln |-> 1002, left |-> 548640, top |-> 4937760, width |-> 11064240, height |-> 1097280, fill_color |-> "EDEBE5", border_color |-> ""],
     [h |-> "add_rich_text", ln |-> 1004, left |-> 822960, top |-> 5120640, width |-> 10515600, height |-> 731520],
     [h |-> "add_citation", ln |-> 1012, bg_dark |-> FALSE] >>

\* create_presentation_v2.py lines 1015-1056: the calls of slide_15_explainability(prs) in execution order
slide_15_explainability ==
  << [h |-> "add_slide", ln |-> 1017],
     [h |-> "set_slide_bg", ln |-> 1018, color |-> "0D1117"],
     [h |-> "add_text_box", ln |-> 1020, left |-> 548640, top |-> 365760, width |-> 5486400, height |-> 365760, font_size |-> 11, color |-> "C17F3A", italic |-> FALSE],
     [h |-> "add_text_box", ln |-> 1023, left |-> 548640, top |-> 822960, width |-> 5486400, height |-> 640080, font_size |-> 28, color |-> "E8E4DE", italic |-> FALSE],
     [h |-> "add_accent_line", ln |-> 1026, left |-> 548640, top |-> 1554480, width |-> 1828800, color |-> "C17F3A"],
     [h |-> "add_rich_text", ln |-> 1035, left |-> 548640, top |-> 1920240, width |-> 5303520, height |-> 365760],
     [h |-> "add_rich_text", ln |-> 1035, left |-> 548640, top |-> 2331720, width |-> 5303520, height |-> 365760],
     [h |-> "add_rich_text", ln |-> 1035, left |-> 548640, top |-> 2743200, width |-> 5303520, height |-> 365760],
     [h |-> "add_text_box", ln |-> 1046, left |-> 548640, top |-> 3291840, width |-> 5303520, height |-> 320040, font_size |-> 13, color |-> "E8E4DE", italic |-> FALSE],
     [h |-> "add_text_box", ln |-> 1046, left |-> 548640, top |-> 3675888, width |-> 5303520, height |-> 320040, font_size |-> 13, color |-> "E8E4DE", italic |-> FALSE],
     [h |-> "add_text_box", ln |-> 1046, left |-> 548640, top |-> 4059936, width |-> 5303520, height |-> 320040, font_size |-> 13, color |-> "E8E4DE", italic |-> FALSE],
     [h |-> "add_image_safe", ln |-> 1053, path |-> os_path_join(IMG_DIR, "Grad-CAMVBM.png"), left |-> 6217920, top |-> 365760, width |-> 5486400, height |-> 0],
     [h |-> "add_image_safe", ln |-> 1054, path |-> os_path_join(IMG_DIR, "limitations_gradcam.png"), left |-> 6217920, top |-> 3474720, width |-> 5486400, height |-> 0],
     [h |-> "add_citation", ln |-> 1056, bg_dark |-> TRUE] >>

\* create_presentation_v2.py lines 1059-1097: the calls of slide_16_cnn_experiments(prs) in execution order
slide_16_cnn_experiments ==
  << [h |-> "add_slide", ln |-> 1061],
     [h |-> "set_slide_bg", ln |-> 1062, color |-> "0D1117"],
     [h |-> "add_text_box", ln |-> 1064, left |-> 548640, top |-> 365760, width |-> 5486400, height |-> 365760, font_size |-> 11, color |-> "C17F3A", italic |-> FALSE],
     [h |-> "add_text_box", ln |-> 1067, left |-> 548640, top |-> 822960, width |-> 5486400, height |-> 640080, font_size |-> 26, color |-> "E8E4DE", italic |-> FALSE],
     [h |-> "add_rounded_rect", ln |-> 1072, left |-> 548640, top |-> 1645920, width |-> 5303520, height |-> 1188720, fill_color |-> "1A1F2B", border_color |-> "5B8C6B"],
     [h |-> "add_multiline_text", ln |-> 1074, left |-> 822960, top |-> 1737360, width |-> 4754880, height |-> 1005840, lines |-> <<[dict |-> TRUE, size |-> 14, color |-> "5B8C6B", italic |-> FALSE], [dict |-> TRUE, size |-> 12, color |-> "E8E4DE", italic |-> FALSE], [dict |-> TRUE, size |-> 12, color |-> "C17F3A", italic |-> FALSE]>>, font_size |-> 14, color |-> "2D2D2D"],
     [h |-> "add_multiline_text", ln |-> 1081, left |-> 548640, top |-> 3108960, width |-> 5303520, height |-> 1371600, lines |-> <<[dict |-> TRUE, size |-> 12, color |-> "8B8680", italic |-> FALSE], [dict |-> TRUE, size |-> 11, color |-> "8B8680", italic |-> FALSE], [dict |-> TRUE, size |-> 6, color |-> "E8E4DE", italic |-> FALSE], [dict |-> TRUE, size |-> 13, color |-> "DC4A4A", italic |-> FALSE], [dict |-> TRUE, size |-> 13, color |-> "E8E4DE", italic |-> FALSE]>>, font_size |-> 14, color |-> "2D2D2D"],
     [h |-> "add_image_safe", ln |-> 1091, path |-> os_path_join(ALZ_DIR, "training_curves_comparison.png"), left |-> 6217920, top |-> 274320, width |-> 5486400, height |-> 0],
     [h |-> "add_image_safe", ln |-> 1095, path |-> os_path_join(ALZ_DIR, "confusion_matrices_comparison.png"), left |-> 6217920, top |-> 3474720, width |-> 5486400, height |-> 0],
     [h |-> "add_citation", ln |-> 1097, bg_dark |-> TRUE] >>

\* create_presentation_v2.py lines 1100-1156: the calls of slide_17_swin_results(prs) in execution order
slide_17_swin_results ==
  << [h |-> "add_slide", ln |-> 1102],
     [h |-> "set_slide_bg", ln |-> 1103, color |-> "F7F5F0"],
     [h |-> "add_text_box", ln |-> 1105, left |-> 548640, top |-> 365760, width |-> 5486400, height |-> 365760, font_size |-> 11, color |-> "C17F3A", italic |-> FALSE],
     [h |-> "add_text_box", ln |-> 1109, left |-> 548640, top |-> 822960, width |-> 4572000, height |-> 1371600, font_size |-> 80, color |-> "5B8C6B", italic |-> FALSE],
     [h |-> "add_text_box", ln |-> 1112, left |-> 548640, top |-> 2194560, width |-> 4572000, height |-> 457200, font_size |-> 16, color |-> "2D2D2D", italic |-> FALSE],
     [h |-> "add_rounded_rect", ln |-> 1124, left |-> 548640, top |-> 2926080, width |-> 2377440, height |-> 1188720, fill_color |-> "EDEBE5", border_color |-> ""],
     [h |-> "add_text_box", ln |-> 1126, left |-> 548640, top |-> 3017520, width |-> 2377440, height |-> 640080, font_size |-> 28, color |-> "0D1117", italic |-> FALSE],
     [h |-> "add_text_box", ln |-> 1128, left |-> 548640, top |-> 3566160, width |-> 2377440, height |-> 365760, font_size |-> 11, color |-> "8B8680", italic |-> FALSE],
     [h |-> "add_rounded_rect", ln |-> 1124, left |-> 3108960, top |-> 2926080, width |-> 2377440, height |-> 1188720, fill_color |-> "EDEBE5", border_color |-> ""],
     [h |-> "add_text_box", ln |-> 1126, left |-> 3108960, top |-> 3017520, width |-> 2377440, height |-> 640080, font_size |-> 28, color |-> "0D1117", italic |-> FALSE],
     [h |-> "add_text_box", ln |-> 1128, left |-> 3108960, top |-> 3566160, width |-> 2377440, height |-> 365760, font_size |-> 11, color |-> "8B8680", italic |-> FALSE],
     [h |-> "add_rounded_rect", ln |-> 1124, left |-> 5669280, top |-> 2926080, width |-> 2377440, height |-> 1188720, fill_color |-> "EDEBE5", border_color |-> ""],
     [h |-> "add_text_box", ln |-> 1126, left |-> 5669280, top |-> 3017520, width |-> 2377440, height |-> 640080, font_size |-> 28, color |-> "0D1117", italic |-> FALSE],
     [h |-> "add_text_box", ln |-> 1128, left |-> 5669280, top |-> 3566160, width |-> 2377440, height |-> 365760, font_size |-> 11, color |-> "8B8680", italic |-> FALSE],
     [h |-> "add_rounded_rect", ln |-> 1124, left |-> 8229600, top |-> 2926080, width |-> 2377440, height |-> 1188720, fill_color |-> "EDEBE5", border_color |-> ""],
     [h |-> "add_text_box", ln |-> 1126, left |-> 8229600, top |-> 3017520, width |-> 2377440, height |-> 640080, font_size |-> 28, color |-> "0D1117", italic |-> FALSE],
     [h |-> "add_text_box", ln |-> 1128, left |-> 8229600, top |-> 3566160, width |-> 2377440, height |-> 365760, font_size |-> 11, color |-> "8B8680", italic |-> FALSE],
     [h |-> "add_text_box", ln |-> 1133, left |-> 548640, top |-> 4389120, width |-> 4572000, height |-> 365760, font_size |-> 14, color |-> "2D2D2D", italic |-> FALSE],
     [h |-> "add_text_box", ln |-> 1142, left |-> 548640, top |-> 4846320, width |-> 2286000, height |-> 274320, font_size |-> 13, color |-> "2D2D2D", italic |-> FALSE],
     [h |-> "add_text_box", ln |-> 1142, left |-> 3017520, top |-> 4846320, width |-> 2286000, height |-> 274320, font_size |-> 13, color |-> "2D2D2D", italic |-> FALSE],
     [h |-> "add_text_box", ln |-> 1142, left |-> 5486400, top |-> 4846320, width |-> 2286000, height |-> 274320, font_size |-> 13, color |-> "2D2D2D", italic |-> FALSE],
     [h |-> "add_text_box", ln |-> 1142, left |-> 7955280, top |-> 4846320, width |-> 2286000, height |-> 274320, font_size |-> 13, color |-> "2D2D2D", italic |-> FALSE],
     [h |-> "add_text_box", ln |-> 1146, left |-> 548640, top |-> 5303520, width |-> 9144000, height |-> 365760, font_size |-> 14, color |-> "5B8C6B", italic |-> FALSE],
     [h |-> "add_image_safe", ln |-> 1152, path |-> os_path_join(ALZ_DIR, "comparison_metrics.png"), left |-> 6217920, top |-> 457200, width |-> 5486400, height |-> 0],
     [h |-> "add_citation", ln |-> 1154, bg_dark |-> FALSE] >>

\* create_presentation_v2.py lines 1159-1224: the calls of slide_18_cnn_vs_swin(prs, chart_path) in execution order
slide_18_cnn_vs_swin(p_chart_path) ==
  << [h |-> "add_slide", ln |-> 1161],
     [h |-> "set_slide_bg", ln |-> 1162, color |-> "F7F5F0"],
     [h |-> "add_text_box", ln |-> 1164, left |-> 548640, top |-> 365760, width |-> 5486400, height |-> 365760, font_size |-> 11, color |-> "C17F3A", italic |-> FALSE],
     [h |-> "add_text_box", ln |-> 1167, left |-> 548640, top |-> 822960, width |-> 10058400, height |-> 640080, font_size |-> 28, color |-> "2D2D2D", italic |-> FALSE],
     [h |-> "add_rounded_rect", ln |-> 1173, left |-> 548640, top |-> 1645920, width |-> 3200400, height |-> 1828800, fill_color |-> "EDEBE5", border_color |-> "DC4A4A"],
     [h |-> "add_text_box", ln |-> 1175, left |-> 548640, top |-> 1737360, width |-> 3200400, height |-> 365760, font_size |-> 13, color |-> "DC4A4A", italic |-> FALSE],
     [h |-> "add_text_box", ln |-> 1178, left |-> 548640, top |-> 2103120, width |-> 3200400, height |-> 822960, font_size |-> 42, color |-> "DC4A4A", italic |-> FALSE],
     [h |-> "add_text_box", ln |-> 1180, left |-> 548640, top |-> 2926080, width |-> 3200400, height |-> 365760, font_size |-> 12, color |-> "8B8680", italic |-> FALSE],
     [h |-> "add_text_box", ln |-> 1184, left |-> 3931920, top |-> 2103120, width |-> 1097280, height |-> 822960, font_size |-> 36, color |-> "C17F3A", italic |-> FALSE],
     [h |-> "add_text_box", ln |-> 1186, left |-> 3931920, top |-> 2743200, width |-> 1097280, height |-> 457200, font_size |-> 14, color |-> "5B8C6B", italic |-> FALSE],
     [h |-> "add_rounded_rect", ln |-> 1190, left |-> 5120640, top |-> 1645920, width |-> 3200400, height |-> 1828800, fill_color |-> "EDEBE5", border_color |-> "5B8C6B"],
     [h |-> "add_text_box", ln |-> 1192, left |-> 5120640, top |-> 1737360, width |-> 3200400, height |-> 365760, font_size |-> 13, color |-> "5B8C6B", italic |-> FALSE],
     [h |-> "add_text_box", ln |-> 1195, left |-> 5120640, top |-> 2103120, width |-> 3200400, height |-> 822960, font_size |-> 42, color |-> "5B8C6B", italic |-> FALSE],
     [h |-> "add_text_box", ln |-> 1197, left |-> 5120640, top |-> 2926080, width |-> 3200400, height |-> 365760, font_size |-> 12, color |-> "8B8680", italic |-> FALSE],
     [h |-> "add_image_safe", ln |-> 1201, path |-> p_chart_path, left |-> 548640, top |-> 3749039, width |-> 7498079, height |-> 0],
     [h |-> "add_rounded_rect", ln |-> 1204, left |-> 8503920, top |-> 1645920, width |-> 3291840, height |-> 4572000, fill_color |-> "EDEBE5", border_color |-> ""],
     [h |-> "add_text_box", ln |-> 1206, left |-> 8686800, top |-> 1737360, width |-> 2926080, height |-> 365760, font_size |-> 15, color |-> "C17F3A", italic |-> FALSE],
     [h |-> "add_text_box", ln |-> 1218, left |-> 8686800, top |-> 2286000, width |-> 2926080, height |-> 548640, font_size |-> 11, color |-> "2D2D2D", italic |-> FALSE],
     [h |-> "add_text_box", ln |-> 1218, left |-> 8686800, top |-> 2834640, width |-> 2926080, height |-> 548640, font_size |-> 11, color |-> "2D2D2D", italic |-> FALSE],
     [h |-> "add_text_box", ln |-> 1218, left |-> 8686800, top |-> 3383280, width |-> 2926080, height |-> 548640, font_size |-> 11, color |-> "2D2D2D", italic |-> FALSE],
     [h |-> "add_text_box", ln |-> 1218, left |-> 8686800, top |-> 3931920, width |-> 2926080, height |-> 548640, font_size |-> 11, color |-> "2D2D2D", italic |-> FALSE],
     [h |-> "add_text_box", ln |-> 1218, left |-> 8686800, top |-> 4480560, width |-> 2926080, height |-> 548640, font_size |-> 11, color |-> "2D2D2D", italic |-> FALSE],
     [h |-> "add_citation", ln |-> 1222, bg_dark |-> FALSE] >>

\* create_presentation_v2.py lines 1227-1284: the calls of slide_19_why_models_fail(prs, chart_path) in execution order
slide_19_why_models_fail(p_chart_path) ==
  << [h |-> "add_slide", ln |-> 1229],
     [h |-> "set_slide_bg", ln |-> 1230, color |-> "F7F5F0"],
     [h |-> "add_text_box", ln |-> 1232, left |-> 548640, top |-> 365760, width |-> 5486400, height |-> 365760, font_size |-> 11, color |-> "C17F3A", italic |-> FALSE],
     [h |-> "add_text_box", ln |-> 1235, left |-> 548640, top |-> 822960, width |-> 10058400, height |-> 640080, font_size |-> 28, color |-> "2D2D2D", italic |-> FALSE],
     [h |-> "add_text_box", ln |-> 1239, left |-> 548640, top |-> 1645920, width |-> 5486400, height |-> 457200, font_size |-> 18, color |-> "DC4A4A", italic |-> FALSE],
     [h |-> "add_image_safe", ln |-> 1242, path |-> p_chart_path, left |-> 548640, top |-> 2194560, width |-> 5029200, height |-> 0],
     [h |-> "add_text_box", ln |-> 1251, left |-> 548640, top |-> 4754880, width |-> 5303520, height |-> 320040, font_size |-> 12, color |-> "2D2D2D", italic |-> FALSE],
     [h |-> "add_text_box", ln |-> 1251, left |-> 548640, top |-> 5102352, width |-> 5303520, height |-> 320040, font_size |-> 12, color |-> "2D2D2D", italic |-> FALSE],
     [h |-> "add_text_box", ln |-> 1251, left |-> 548640, top |-> 5449824, width |-> 5303520, height |-> 320040, font_size |-> 12, color |-> "2D2D2D", italic |-> FALSE],
     [h |-> "add_shape_rect", ln |-> 1256, left |-> 5943600, top |-> 1645920, width |-> 25400, height |-> 4389120, fill_color |-> "C17F3A", border_color |-> ""],
     [h |-> "add_text_box", ln |-> 1259, left |-> 6400800, top |-> 1645920, width |-> 5303520, height |-> 457200, font_size |-> 18, color |-> "C17F3A", italic |-> FALSE],
     [h |-> "add_multiline_text", ln |-> 1281, left |-> 6400800, top |-> 2103120, width |-> 5303520, height |-> 3840480, lines |-> <<[dict |-> TRUE, size |-> 14, color |-> "2D2D2D", italic |-> FALSE], [dict |-> TRUE, size |-> 12, color |-> "2D2D2D", italic |-> FALSE], [dict |-> TRUE, size |-> 12, color |-> "2D2D2D", italic |-> FALSE], [dict |-> TRUE, size |-> 8, color |-> "2D2D2D", italic |-> FALSE], [dict |-> TRUE, size |-> 14, color |-> "2D2D2D", italic |-> FALSE], [dict |-> TRUE, size |-> 12, color |-> "2D2D2D", italic |-> FALSE], [dict |-> TRUE, size |-> 12, color |-> "2D2D2D", italic |-> FALSE], [dict |-> TRUE, size |-> 12, color |-> "2D2D2D", italic |-> FALSE], [dict |-> TRUE, size |-> 8, color |-> "2D2D2D", italic |-> FALSE], [dict |-> TRUE, size |-> 14, color |-> "DC4A4A", italic |-> FALSE], [dict |-> TRUE, size |-> 13, color |-> "2D2D2D", italic |-> FALSE]>>, font_size |-> 14, color |-> "2D2D2D"],
     [h |-> "add_citation", ln |-> 1284, bg_dark |-> FALSE] >>

\* create_presentation_v2.py lines 1287-1318: the calls of slide_20_accuracy_paradox(prs) in execution order
slide_20_accuracy_paradox ==
  << [h |-> "add_slide", ln |-> 1289],
     [h |-> "set_slide_bg", ln |-> 1290, color |-> "F7F5F0"],
     [h |-> "add_text_box", ln |-> 1292, left |-> 548640, top |-> 365760, width |-> 5486400, height |-> 365760, font_size |-> 11, color |-> "C17F3A", italic |-> FALSE],
     [h |-> "add_text_box", ln |-> 1295, left |-> 548640, top |-> 822960, width |-> 5486400, height |-> 640080, font_size |-> 28, color |-> "2D2D2D", italic |-> FALSE],
     [h |-> "add_accent_line", ln |-> 1299, left |-> 548640, top |-> 1554480, width |-> 1828800, color |-> "C17F3A"],
     [h |-> "add_text_box", ln |-> 1310, left |-> 548640, top |-> 1828800, width |-> 5486400, height |-> 457200, font_size |-> 14, color |-> "2D2D2D", italic |-> FALSE],
     [h |-> "add_text_box", ln |-> 1310, left |-> 548640, top |-> 2331720, width |-> 5486400, height |-> 457200, font_size |-> 14, color |-> "2D2D2D", italic |-> FALSE],
     [h |-> "add_text_box", ln |-> 1310, left |-> 548640, top |-> 2834640, width |-> 5486400, height |-> 457200, font_size |-> 14, color |-> "2D2D2D", italic |-> FALSE],
     [h |-> "add_text_box", ln |-> 1310, left |-> 548640, top |-> 3337560, width |-> 5486400, height |-> 457200, font_size |-> 14, color |-> "2D2D2D", italic |-> FALSE],
     [h |-> "add_text_box", ln |-> 1310, left |-> 548640, top |-> 3840480, width |-> 5486400, height |-> 457200, font_size |-> 14, color |-> "2D2D2D", italic |-> FALSE],
     [h |-> "add_image_safe", ln |-> 1316, path |-> os_path_join(IMG_DIR, "limitations_class_imbalance.png"), left |-> 6400800, top |-> 457200, width |-> 5303520, height |-> 0],
     [h |-> "add_citation", ln |-> 1318, bg_dark |-> FALSE] >>

\* create_presentation_v2.py lines 1321-1352: the calls of slide_21_label_uncertainty(prs) in execution order
slide_21_label_uncertainty ==
  << [h |-> "add_slide", ln |-> 1323],
     [h |-> "set_slide_bg", ln |-> 1324, color |-> "F7F5F0"],
     [h |-> "add_text_box", ln |-> 1326, left |-> 548640, top |-> 365760, width |-> 5486400, height |-> 365760, font_size |-> 11, color |-> "C17F3A", italic |-> FALSE],
     [h |-> "add_text_box", ln |-> 1330, left |-> 548640, top |-> 1097280, width |-> 4572000, height |-> 1371600, font_size |-> 96, color |-> "DC4A4A", italic |-> FALSE],
     [h |-> "add_text_box", ln |-> 1333, left |-> 548640, top |-> 2743200, width |-> 5029200, height |-> 457200, font_size |-> 20, color |-> "2D2D2D", italic |-> FALSE],
     [h |-> "add_accent_line", ln |-> 1337, left |-> 548640, top |-> 3383280, width |-> 1828800, color |-> "C17F3A"],
     [h |-> "add_text_box", ln |-> 1348, left |-> 548640, top |-> 3657600, width |-> 10972800, height |-> 365760, font_size |-> 14, color |-> "2D2D2D", italic |-> FALSE],
     [h |-> "add_text_box", ln |-> 1348, left |-> 548640, top |-> 4114800, width |-> 10972800, height |-> 365760, font_size |-> 14, color |-> "2D2D2D", italic |-> FALSE],
     [h |-> "add_text_box", ln |-> 1348, left |-> 548640, top |-> 4572000, width |-> 10972800, height |-> 365760, font_size |-> 14, color |-> "2D2D2D", italic |-> FALSE],
     [h |-> "add_text_box", ln |-> 1348, left |-> 548640, top |-> 5029200, width |-> 10972800, height |-> 365760, font_size |-> 14, color |-> "2D2D2D", italic |-> FALSE],
     [h |-> "add_text_box", ln |-> 1348, left |-> 548640, top |-> 5486400, width |-> 10972800, height |-> 365760, font_size |-> 14, color |-> "2D2D2D", italic |-> FALSE],
     [h |-> "add_citation", ln |-> 1352, bg_dark |-> FALSE] >>

\* create_presentation_v2.py lines 1355-1410: the calls of slide_22_advances_road_ahead(prs) in execution order
slide_22_advances_road_ahead ==
  << [h |-> "add_slide", ln |-> 1357],
     [h |-> "set_slide_bg", ln |-> 1358, color |-> "F7F5F0"],
     [h |-> "add_text_box", ln |-> 1360, left |-> 548640, top |-> 365760, width |-> 5486400, height |-> 365760, font_size |-> 11, color |-> "C17F3A", italic |-> FALSE],
     [h |-> "add_text_box", ln |-> 1363, left |-> 548640, top |-> 822960, width |-> 10058400, height |-> 640080, font_size |-> 28, color |-> "2D2D2D", italic |-> FALSE],
     [h |-> "add_text_box", ln |-> 1368, left |-> 548640, top |-> 1645920, width |-> 5303520, height |-> 457200, font_size |-> 18, color |-> "3B82B6", italic |-> FALSE],
     [h |-> "add_text_box", ln |-> 1380, left |-> 548640, top |-> 2194560, width |-> 5303520, height |-> 347472, font_size |-> 13, color |-> "2D2D2D", italic |-> FALSE],
     [h |-> "add_text_box", ln |-> 1380, left |-> 548640, top |-> 2587752, width |-> 5303520, height |-> 347472, font_size |-> 13, color |-> "2D2D2D", italic |-> FALSE],
     [h |-> "add_text_box", ln |-> 1380, left |-> 548640, top |-> 2980944, width |-> 5303520, height |-> 347472, font_size |-> 13, color |-> "2D2D2D", italic |-> FALSE],
     [h |-> "add_text_box", ln |-> 1380, left |-> 548640, top |-> 3374136, width |-> 5303520, height |-> 347472, font_size |-> 13, color |-> "2D2D2D", italic |-> FALSE],
     [h |-> "add_text_box", ln |-> 1380, left |-> 548640, top |-> 3767328, width |-> 5303520, height |-> 347472, font_size |-> 13, color |-> "2D2D2D", italic |-> FALSE],
     [h |-> "add_shape_rect", ln |-> 1385, left |-> 5943600, top |-> 1645920, width |-> 25400, height |-> 4389120, fill_color |-> "C17F3A", border_color |-> ""],
     [h |-> "add_text_box", ln |-> 1388, left |-> 6400800, top |-> 1645920, width |-> 5303520, height |-> 457200, font_size |-> 18, color |-> "C17F3A", italic |-> FALSE],
     [h |-> "add_rounded_rect", ln |-> 1398, left |-> 6400800, top |-> 2194560, width |-> 5029200, height |-> 1005840, fill_color |-> "EDEBE5", border_color |-> ""],
     [h |-> "add_text_box", ln |-> 1400, left |-> 6583680, top |-> 2286000, width |-> 4663440, height |-> 365760, font_size |-> 14, color |-> "C17F3A", italic |-> FALSE],
     [h |-> "add_text_box", ln |-> 1402, left |-> 6583680, top |-> 2651760, width |-> 4663440, height |-> 457200, font_size |-> 12, color |-> "2D2D2D", italic |-> FALSE],
     [h |-> "add_rounded_rect", ln |-> 1398, left |-> 6400800, top |-> 3383280, width |-> 5029200, height |-> 1005840, fill_color |-> "EDEBE5", border_color |-> ""],
     [h |-> "add_text_box", ln |-> 1400, left |-> 6583680, top |-> 3474720, width |-> 4663440, height |-> 365760, font_size |-> 14, color |-> "C17F3A", italic |-> FALSE],
     [h |-> "add_text_box", ln |-> 1402, left |-> 6583680, top |-> 3840480, width |-> 4663440, height |-> 457200, font_size |-> 12, color |-> "2D2D2D", italic |-> FALSE],
     [h |-> "add_rounded_rect", ln |-> 1398, left |-> 6400800, top |-> 4572000, width |-> 5029200, height |-> 1005840, fill_color |-> "EDEBE5", border_color |-> ""],
     [h |-> "add_text_box", ln |-> 1400, left |-> 6583680, top |-> 4663440, width |-> 4663440, height |-> 365760, font_size |-> 14, color |-> "C17F3A", italic |-> FALSE],
     [h |-> "add_text_box", ln |-> 1402, left |-> 6583680, top |-> 5029200, width |-> 4663440, height |-> 457200, font_size |-> 12, color |-> "2D2D2D", italic |-> FALSE],
     [h |-> "add_image_safe", ln |-> 1408, path |-> os_path_join(IMG_DIR, "Graph.png"), left |-> 548640, top |-> 4389120, width |-> 5303520, height |-> 0],
     [h |-> "add_citation", ln |-> 1410, bg_dark |-> FALSE] >>

\* create_presentation_v2.py lines 1413-1450: the calls of slide_23_conclusion(prs) in execution order
slide_23_conclusion ==
  << [h |-> "add_slide", ln |-> 1415],
     [h |-> "set_slide_bg", ln |-> 1416, color |-> "0D1117"],
     [h |-> "add_text_box", ln |-> 1418, left |-> 548640, top |-> 365760, width |-> 5486400, height |-> 365760, font_size |-> 11, color |-> "C17F3A", italic |-> FALSE],
     [h |-> "add_text_box", ln |-> 1421, left |-> 548640, top |-> 914400, width |-> 10058400, height |-> 914400, font_size |-> 36, color |-> "E8E4DE", italic |-> FALSE],
     [h |-> "add_accent_line", ln |-> 1425, left |-> 548640, top |-> 1920240, width |-> 2743200, color |-> "C17F3A"],
     [h |-> "add_rounded_rect", ln |-> 1436, left |-> 548640, top |-> 2377440, width |-> 3474720, height |-> 2560320, fill_color |-> "1A1F2B", border_color |-> "3B82B6"],
     [h |-> "add_text_box", ln |-> 1437, left |-> 731520, top |-> 2468880, width |-> 3108960, height |-> 548640, font_size |-> 32, color |-> "3B82B6", italic |-> FALSE],
     [h |-> "add_text_box", ln |-> 1439, left |-> 731520, top |-> 3017520, width |-> 3108960, height |-> 457200, font_size |-> 16, color |-> "E8E4DE", italic |-> FALSE],
     [h |-> "add_text_box", ln |-> 1441, left |-> 731520, top |-> 3474720, width |-> 3108960, height |-> 1280160, font_size |-> 12, color |-> "8B8680", italic |-> FALSE],
     [h |-> "add_rounded_rect", ln |-> 1436, left |-> 4297679, top |-> 2377440, width |-> 3474720, height |-> 2560320, fill_color |-> "1A1F2B", border_color |-> "C17F3A"],
     [h |-> "add_text_box", ln |-> 1437, left |-> 4480559, top |-> 2468880, width |-> 3108960, height |-> 548640, font_size |-> 32, color |-> "C17F3A", italic |-> FALSE],
     [h |-> "add_text_box", ln |-> 1439, left |-> 4480559, top |-> 3017520, width |-> 3108960, height |-> 457200, font_size |-> 16, color |-> "E8E4DE", italic |-> FALSE],
     [h |-> "add_text_box", ln |-> 1441, left |-> 4480559, top |-> 3474720, width |-> 3108960, height |-> 1280160, font_size |-> 12, color |-> "8B8680", italic |-> FALSE],
     [h |-> "add_rounded_rect", ln |-> 1436, left |-> 8046718, top |-> 2377440, width |-> 3474720, height |-> 2560320, fill_color |-> "1A1F2B", border_color |-> "5B8C6B"],
     [h |-> "add_text_box", ln |-> 1437, left |-> 8229598, top |-> 2468880, width |-> 3108960, height |-> 548640, font_size |-> 32, color |-> "5B8C6B", italic |-> FALSE],
     [h |-> "add_text_box", ln |-> 1439, left |-> 8229598, top |-> 3017520, width |-> 3108960, height |-> 457200, font_size |-> 16, color |-> "E8E4DE", italic |-> FALSE],
     [h |-> "add_text_box", ln |-> 1441, left |-> 8229598, top |-> 3474720, width |-> 3108960, height |-> 1280160, font_size |-> 12, color |-> "8B8680", italic |-> FALSE],
     [h |-> "add_text_box", ln |-> 1446, left |-> 548640, top |-> 5303520, width |-> 10972800, height |-> 914400, font_size |-> 22, color |-> "C17F3A", italic |-> TRUE],
     [h |-> "add_citation", ln |-> 1450, bg_dark |-> TRUE] >>

\* create_presentation_v2.py lines 1453-1480: the calls of slide_24_thank_you(prs) in execution order
slide_24_thank_you ==
  << [h |-> "add_slide", ln |-> 1455],
     [h |-> "set_slide_bg", ln |-> 1456, color |-> "0D1117"],
     [h |-> "add_image_safe", ln |-> 1460, path |-> os_path_join(IMG_DIR, "logo_en.png"), left |-> 548640, top |-> 365760, width |-> 2560320, height |-> 0],
     [h |-> "add_accent_line", ln |-> 1462, left |-> 548640, top |-> 2560320, width |-> 3657600, color |-> "C17F3A"],
     [h |-> "add_text_box", ln |-> 1464, left |-> 548640, top |-> 2926080, width |-> 10972800, height |-> 914400, font_size |-> 48, color |-> "E8E4DE", italic |-> FALSE],
     [h |-> "add_text_box", ln |-> 1467, left |-> 548640, top |-> 4023360, width |-> 10972800, height |-> 457200, font_size |-> 22, color |-> "C17F3A", italic |-> TRUE],
     [h |-> "add_multiline_text", ln |-> 1471, left |-> 548640, top |-> 4937760, width |-> 5486400, height |-> 1371600, lines |-> <<[dict |-> TRUE, size |-> 16, color |-> "E8E4DE", italic |-> FALSE], [dict |-> TRUE, size |-> 13, color |-> "8B8680", italic |-> FALSE]>>, font_size |-> 14, color |-> "2D2D2D"],
     [h |-> "add_multiline_text", ln |-> 1477, left |-> 6400800, top |-> 4937760, width |-> 5029200, height |-> 1371600, lines |-> <<[dict |-> TRUE, size |-> 13, color |-> "3B82B6", italic |-> FALSE], [dict |-> TRUE, size |-> 13, color |-> "3B82B6", italic |-> FALSE]>>, font_size |-> 14, color |-> "2D2D2D"] >>

\* main() calling slide_08_beyond_mri before slide_07_mri_fundamentals (C13
\* depends on the call order).
main_slides_swapped(loc) ==
  << slide_01_title,
     slide_02_epidemic(loc.chart_prevalence),
     slide_03_window_atn,
     slide_04_neuroimaging,
     slide_05_datasets,
     slide_06_section_divider,
     slide_08_beyond_mri,
     slide_07_mri_fundamentals,
     slide_09_preprocessing,
     slide_10_signal_cleaning,
     slide_11_skull_stripping,
     slide_12_vbm,
     slide_13_classical_ml(loc.chart_ml),
     slide_14_cnns_to_transformers,
     slide_15_explainability,
     slide_16_cnn_experiments,
     slide_17_swin_results,
     slide_18_cnn_vs_swin(loc.chart_cnn_swin),
     slide_19_why_models_fail(loc.chart_leakage),
     slide_20_accuracy_paradox,
     slide_21_label_uncertainty,
     slide_22_advances_road_ahead,
     slide_23_conclusion,
     slide_24_thank_you >>

\* main(), lines 1509-1567: the slide functions in call order, with main's locals as arguments
main_slides(loc) ==
  << slide_01_title,
     slide_02_epidemic(loc.chart_prevalence),
     slide_03_window_atn,
     slide_04_neuroimaging,
     slide_05_datasets,
     slide_06_section_divider,
     slide_07_mri_fundamentals,
     slide_08_beyond_mri,
     slide_09_preprocessing,
     slide_10_signal_cleaning,
     slide_11_skull_stripping,
     slide_12_vbm,
     slide_13_classical_ml(loc.chart_ml),
     slide_14_cnns_to_transformers,
     slide_15_explainability,
     slide_16_cnn_experiments,
     slide_17_swin_results,
     slide_18_cnn_vs_swin(loc.chart_cnn_swin),
     slide_19_why_models_fail(loc.chart_leakage),
     slide_20_accuracy_paradox,
     slide_21_label_uncertainty,
     slide_22_advances_road_ahead,
     slide_23_conclusion,
     slide_24_thank_you >>

\* ------------------------------------------------------- statistics in text
\* The text literals that state a statistic, by the source line of the call
\* that passes them: <<text before the number, the number times 10, text after>>.
\* build_presentation.py: "7.2M" (202), "Projected to reach 13.8 million by
\* 2060." (211), "94.5%" (747), "... accuracy drops to ~68% for mild cognitive
\* impairment detection." (756-757), "-28%" (1021, written with U+2212).
bp_text ==
  (201 :> <<"", 72, "M">>) @@
  (210 :> <<"Projected to reach ", 138, " million by 2060.">>) @@
  (746 :> <<"", 945, "%">>) @@
  (755 :> <<"But the MCI cliff tells the real story - accuracy drops to ~", 680,
            "% for mild cognitive impairment detection.">>) @@
  (1020 :> <<"-", 280, "%">>)
\* create_presentation_v2.py: the citation of slide 17 ending "+29pp over best
\* CNN" (1154-1156) and '+29pp' between the hero boxes of slide 18 (1186-1187).
v2_text ==
  (1154 :> <<"Author's experimental results, alzTheBatch repository  |  microsoft/swin-base-patch4-window7-224  |  +",
             290, "pp over best CNN">>) @@
  (1186 :> <<"+", 290, "pp">>)

\* ------------------------------------------------------------ chart functions
\* A chart file's content: the function that rendered it and the literal data
\* it plots (percentages and millions times 10, rates times 100).
\* arrow: the y values (times 10) of the tail (xytext) and the head (xy) of the
\* gap / drop arrow it draws, <<>> when it draws none.  notes: the gap,
\* improvement and legend texts it draws, each <<prefix, number, suffix>>.
\* f'{x:.0f}' of a value given in tenths: the nearest whole number, a tie
\* going to the even one.
format_0f(t) ==
  LET q == t \div 10
      r == t % 10
  IN IF r < 5 THEN q ELSE IF r > 5 THEN q + 1 ELSE IF q % 2 = 0 THEN q ELSE q + 1
\* create_presentation_v2.py lines 204-208: f'+{diff:.0f}pp' for every metric.
improvement_notes(cnn_vals, swin_vals) ==
  [i \in 1..Len(cnn_vals) |-> <<"+", format_0f(swin_vals[i] - cnn_vals[i]), "pp">>]
\* generate_charts.py
chart1_prevalence ==
  [path |-> os_path_join(OUTPUT_DIR, "prevalence_projection.png"),
   content |-> [by |-> "chart1_prevalence",
                data |-> << <<2025, 2030, 2035, 2040, 2045, 2050, 2055, 2060>>,
                            <<72, 80, 91, 103, 112, 121, 130, 138>> >>,
                arrow |-> <<>>, notes |-> <<>>]]
\* chart2_ml_comparison saving under the ROC chart's file name (C7 depends on the name).
chart2_ml_comparison_misnamed ==
  [path |-> os_path_join(OUTPUT_DIR, "roc_curve.png"),
   content |-> [by |-> "chart2_ml_comparison",
                data |-> << <<945, 680>>, <<910, 650>>, <<895, 630>> >>,
                arrow |-> <<940, 700>>, notes |-> << <<"~", 25, "% drop">> >>]]

chart2_ml_comparison ==
  [path |-> os_path_join(OUTPUT_DIR, "ml_comparison.png"),
   content |-> [by |-> "chart2_ml_comparison",
                data |-> << <<945, 680>>, <<910, 650>>, <<895, 630>> >>,
                arrow |-> <<940, 700>>, notes |-> << <<"~", 25, "% drop">> >>]]
chart3_roc_curve ==
  [path |-> os_path_join(OUTPUT_DIR, "roc_curve.png"),
   content |-> [by |-> "chart3_roc_curve",
                data |-> << <<0, 2, 5, 10, 15, 25, 40, 60, 100>>,
                            <<0, 45, 65, 78, 85, 92, 96, 98, 100>> >>,
                arrow |-> <<>>,
                notes |-> << <<"Chance (AUC = 0.", 50, ")">>, <<"Best Model (AUC = 0.", 93, ")">> >>]]
\* chart4_data_leakage with a second bar of 66 (C23 depends on the bar values).
chart4_data_leakage_66 ==
  [path |-> os_path_join(OUTPUT_DIR, "data_leakage_impact.png"),
   content |-> [by |-> "chart4_data_leakage", data |-> << <<950, 660>> >>,
                arrow |-> <<950, 660>>, notes |-> << <<"-", 28, "%">> >>]]

chart4_data_leakage ==
  [path |-> os_path_join(OUTPUT_DIR, "data_leakage_impact.png"),
   content |-> [by |-> "chart4_data_leakage", data |-> << <<950, 670>> >>,
                arrow |-> <<950, 670>>, notes |-> << <<"-", 28, "%">> >>]]
\* create_presentation_v2.py (each returns the path it saved to)
generate_prevalence_chart ==
  [path |-> os_path_join(CHART_DIR, "prevalence_projection.png"),
   content |-> [by |-> "generate_prevalence_chart",
                data |-> << <<2025, 2030, 2035, 2040, 2045, 2050, 2055, 2060>>,
                            <<72, 84, 96, 108, 117, 125, 132, 138>> >>,
                arrow |-> <<>>, notes |-> <<>>]]
generate_classical_ml_chart ==
  [path |-> os_path_join(CHART_DIR, "classical_ml_comparison.png"),
   content |-> [by |-> "generate_classical_ml_chart",
                data |-> << <<945, 680>>, <<910, 620>> >>,
                arrow |-> <<945, 680>>, notes |-> << <<"~", 27, "% gap">> >>]]
generate_cnn_vs_swin_chart ==
  [path |-> os_path_join(CHART_DIR, "cnn_vs_swin_comparison.png"),
   content |-> [by |-> "generate_cnn_vs_swin_chart",
                data |-> << <<593, 635, 519, 356>>, <<876, 904, 892, 800>> >>,
                arrow |-> <<>>,
                notes |-> improvement_notes(<<593, 635, 519, 356>>, <<876, 904, 892, 800>>)]]
generate_leakage_chart ==
  [path |-> os_path_join(CHART_DIR, "data_leakage_impact.png"),
   content |-> [by |-> "generate_leakage_chart", data |-> << <<950, 670>> >>,
                arrow |-> <<950, 670>>, notes |-> << <<"-", 28, "pp">> >>]]

\* generate_charts.py __main__: the chart functions in call order
gc_main == <<chart1_prevalence, chart2_ml_comparison, chart3_roc_curve, chart4_data_leakage>>
\* create_presentation_v2.main(), step 1: chart function and the local it is assigned to
main_charts ==
  << [chart |-> generate_prevalence_chart, var |-> "chart_prevalence"],
     [chart |-> generate_classical_ml_chart, var |-> "chart_ml"],
     [chart |-> generate_cnn_vs_swin_chart, var |-> "chart_cnn_swin"],
     [chart |-> generate_leakage_chart, var |-> "chart_leakage"] >>

\* ------------------------------------------------------------- matplotlib
\* The state pyplot keeps in a process: the rcParams in effect ("default" until
\* a script updates them) and the open figures, the last one being current.
\* A figure holds what was plotted on it and the rcParams it was created under.
NewProcess == [rc |-> "default", figs |-> <<>>]
\* Where plt.rcParams.update({...}) can raise: before it has set any key, or
\* partway (it sets the keys one by one, so the keys before the failing one
\* are set: the rcParams are then "partial", neither the defaults nor the
\* script's style, unless they held the style's values already).
UpdatePoints == {"in_update", "in_update_partway"}
rcParams_update(m, style, f) ==
  IF f = "in_update" THEN m
  ELSE IF f = "in_update_partway" THEN [m EXCEPT !.rc = IF @ = style THEN style ELSE "partial"]
  ELSE [m EXCEPT !.rc = style]
\* Importing a script: generate_charts.py updates rcParams at module level;
\* create_presentation_v2.py does so in setup_mpl, build_presentation.py never.
ImportScript(s) == IF s = "gc" THEN rcParams_update(NewProcess, "gc", NoPoint) ELSE NewProcess
\* Where the module-level code of a script can raise: in one of the library
\* calls that set up its constants ("import"), and for generate_charts.py
\* partway through its plt.rcParams.update.
ImportPoints(s) == IF s = "gc" THEN {"import", "in_update_partway"} ELSE {"import"}
\* pyplot's state in the process of a script whose module-level code raised.
ImportFailed(s, f) ==
  IF s = "gc" /\ f \in UpdatePoints THEN rcParams_update(NewProcess, "gc", f) ELSE NewProcess
setup_mpl(m) == rcParams_update(m, "v2", NoPoint)
plt_subplots(m, c) ==
  [m EXCEPT !.figs = Append(@, [by |-> c.content.by, data |-> c.content.data, style |-> m.rc,
                               arrow |-> c.content.arrow, notes |-> c.content.notes])]
\* A variant of plt.gcf that takes the oldest open figure (C11 depends on the
\* current figure being the one the function just created).
plt_gcf_oldest(m) == m.figs[1]
plt_gcf(m) == m.figs[Len(m.figs)]
\* plt.close(fig) of the function's own figure / plt.close() of the current one
plt_close(m) == [m EXCEPT !.figs = SubSeq(@, 1, Len(@) - 1)]
\* A chart file that savefig opened and did not finish writing.
PartialChart == [by |-> "", data |-> <<>>, style |-> "", arrow |-> <<>>, notes |-> <<>>]
\* Where the library can raise in a chart function: inside plt.subplots (no
\* figure exists yet), in the plotting calls between plt.subplots and savefig,
\* inside savefig once it has opened the file, and after savefig (plt.close).
ChartPoints == {"in_subplots", "before_save", "in_save", "after_save"}
\* The chart functions of create_presentation_v2.py call setup_mpl() first,
\* whose plt.rcParams.update can raise as well.
ChartPointsOf(s) == IF s = "v2" THEN UpdatePoints \cup ChartPoints ELSE ChartPoints
\* The encodings of a process's standard output.
Encodings == {"utf-8", "ascii"}
\* print(text) raises UnicodeEncodeError, and writes nothing, when the text
\* holds the check mark U+2713 and stdout cannot encode it.  The check mark is
\* in the line every generate_charts.py function prints after plt.close and in
\* build_presentation.py's first closing line; create_presentation_v2.py
\* prints ASCII only.
print_raises(checkmark, enc) == checkmark /\ enc = "ascii"
\* One call of a chart function c of script s in a process whose pyplot state
\* is m; f is where the library raises.  generate_charts.py saves its own fig
\* (fig.savefig), create_presentation_v2.py the current figure (plt.savefig).
\* A figure that was created stays open when the library raises.  With the
\* file saved and the figure closed, a generate_charts.py function prints its
\* check-mark line, which raises on a stdout (enc) that cannot encode it; a
\* create_presentation_v2.py function returns the path.
chart_call(s, c, m, f, enc) ==
  LET m1 == IF s = "v2" THEN setup_mpl(m) ELSE m
      m2 == plt_subplots(m1, c)
      fig == IF s = "v2" THEN plt_gcf(m2) ELSE m2.figs[Len(m2.figs)]
      lib == "LibraryError"
  IN IF s = "v2" /\ f \in UpdatePoints
     THEN [mpl |-> rcParams_update(m, "v2", f), saved |-> FALSE, file |-> <<>>, raised |-> lib]
     ELSE IF f = "in_subplots" THEN [mpl |-> m1, saved |-> FALSE, file |-> <<>>, raised |-> lib]
     ELSE IF f = "before_save" THEN [mpl |-> m2, saved |-> FALSE, file |-> <<>>, raised |-> lib]
     ELSE IF f = "in_save" THEN [mpl |-> m2, saved |-> TRUE, file |-> PartialChart, raised |-> lib]
     ELSE IF f = "after_save" THEN [mpl |-> m2, saved |-> TRUE, file |-> fig, raised |-> lib]
     ELSE [mpl |-> plt_close(m2), saved |-> TRUE, file |-> fig,
           raised |-> IF print_raises(s = "gc", enc) THEN "UnicodeEncodeError" ELSE ""]

\* ------------------------------------------------------- running a slide body
\* One helper call of build_presentation.py / create_presentation_v2.py.
bp_call(slide, op, files, f) ==
  CASE op.h = "set_slide_bg" -> set_slide_bg(slide, op.color, f)
    [] op.h = "add_shape_fill" -> add_shape_fill(slide, op.left, op.top, op.width, op.height, op.color, f)
    [] op.h = "add_textbox" -> add_textbox(slide, op.left, op.top, op.width, op.height, op.font_size, op.color, op.italic, f)
    [] op.h = "add_multiline_textbox" -> add_multiline_textbox(slide, op.left, op.top, op.width, op.height, op.lines, op.font_size, op.color, op.italic, f)
    [] op.h = "add_citation_strip" -> add_citation_strip(slide, op.dark_bg, f)
    [] op.h = "add_accent_line" -> add_accent_line(slide, op.left, op.top, op.width, op.color, op.height, f)
    [] op.h = "add_section_label" -> add_section_label(slide, op.left, op.top, op.color, f)
    [] op.h = "safe_add_image" -> safe_add_image(slide, op.img_file, op.left, op.top, op.width, op.height, files, f)

v2_call(slide, op, files, f) ==
  CASE op.h = "set_slide_bg" -> v2_set_slide_bg(slide, op.color, f)
    [] op.h = "add_text_box" -> add_text_box(slide, op.left, op.top, op.width, op.height, op.font_size, op.color, op.italic, f)
    [] op.h = "add_rich_text" -> add_rich_text(slide, op.left, op.top, op.width, op.height, f)
    [] op.h = "add_multiline_text" -> add_multiline_text(slide, op.left, op.top, op.width, op.height, op.lines, op.font_size, op.color, f)
    [] op.h = "add_citation" -> add_citation(slide, op.bg_dark, f)
    [] op.h = "add_shape_rect" -> add_shape_rect(slide, op.left, op.top, op.width, op.height, op.fill_color, op.border_color, f)
    [] op.h = "add_rounded_rect" -> add_rounded_rect(slide, op.left, op.top, op.width, op.height, op.fill_color, op.border_color, f)
    [] op.h = "add_image_safe" -> add_image_safe(slide, op.path, op.left, op.top, op.width, op.height, files, f)
    [] op.h = "add_accent_line" -> v2_add_accent_line(slide, op.left, op.top, op.width, op.color, f)

IsImageCall(op) == op.h \in {"safe_add_image", "add_image_safe"}
ImageArg(op) == IF op.h = "safe_add_image" THEN op.img_file ELSE op.path
\* The file an image call names: a relative name is looked up under images/.
ResolvedPath(op) == IF os_path_isabs(ImageArg(op)) THEN ImageArg(op) ELSE os_path_join(IMG, ImageArg(op)[2])

\* The shapes a call added carry the call's helper and source line.
Stamp(old, new, op) ==
  [new EXCEPT !.shapes = [j \in 1..Len(new.shapes) |->
      IF j > Len(old.shapes) THEN [new.shapes[j] EXCEPT !.by = op.h, !.ln = op.ln]
      ELSE new.shapes[j]]]

\* The library may raise where the call reaches it.
Points(s, op, files) ==
  IF IsImageCall(op) THEN (IF ResolvedPath(op) \in files THEN {"lib"} ELSE {})
  ELSE IF s = "bp" /\ op.h \in {"add_textbox", "add_section_label", "add_citation_strip"}
       THEN {"lib", "alignment", "spacing"}
  ELSE IF s = "v2" /\ op.h \in {"add_text_box", "add_rich_text", "add_multiline_text", "add_citation"}
       THEN {"lib", "anchor"}
  ELSE {"lib"}

\* A fault: the call k of the body whose library call raises, and the point.
NoFault == [k |-> 0, point |-> NoPoint]
\* Every call of the body can be the one whose library call raises, at every
\* point at which it reaches the library.  What the step leaves behind (the
\* exception, what was printed, the image calls made, the shapes) depends on
\* the call only through the image calls made before it and through whether it
\* is an image call itself (which is then logged as raising): of the calls
\* that agree in both, the first one stands for the others.
ImagesBefore(ops, k) == Cardinality({j \in 1..(k - 1) : IsImageCall(ops[j])})
SameFault(ops, j, k) ==
  /\ IsImageCall(ops[j]) = IsImageCall(ops[k])
  /\ ImagesBefore(ops, j) = ImagesBefore(ops, k)
Faults(s, ops, files) ==
  {NoFault} \cup
  UNION {{[k |-> k, point |-> p] : p \in {q \in Points(s, ops[k], files) :
             ~\E j \in 1..(k - 1) : SameFault(ops, j, k) /\ q \in Points(s, ops[j], files)}}
         : k \in 1..Len(ops)}

\* The calls ops[i..] of one slide, in order, on the presentation's slide list;
\* an exception ends the body.  log records every image call.
RECURSIVE RunOps(_, _, _, _, _, _)
RunOps(s, acc, ops, i, files, ft) ==
  IF i > Len(ops) \/ acc.raised # "" THEN acc
  ELSE
    LET op == ops[i]
        f == IF ft.k = i THEN ft.point ELSE NoPoint
        n == Len(acc.slides)
    IN IF op.h = "add_slide"
       THEN IF f = "lib"
            THEN [acc EXCEPT !.raised = "LibraryError"]
            ELSE RunOps(s, [acc EXCEPT !.slides = Append(@, NewSlide)], ops, i + 1, files, ft)
       ELSE
         LET slide == acc.slides[n]
             r == IF s = "bp" THEN bp_call(slide, op, files, f) ELSE v2_call(slide, op, files, f)
             entry == [slide |-> n, ln |-> op.ln, path |-> ResolvedPath(op), f |-> f,
                       before |-> Len(slide.shapes),
                       added |-> SubSeq(r.slide.shapes, Len(slide.shapes) + 1, Len(r.slide.shapes)),
                       ret |-> r.ret, out |-> r.out, raised |-> r.raised]
         IN RunOps(s,
                   [slides |-> [acc.slides EXCEPT ![n] = Stamp(slide, r.slide, op)],
                    raised |-> r.raised,
                    out |-> acc.out \o r.out,
                    log |-> IF IsImageCall(op) THEN Append(acc.log, entry) ELSE acc.log],
                   ops, i + 1, files, ft)

RunSlide(s, slides, ops, files, ft) ==
  RunOps(s, [slides |-> slides, raised |-> "", out |-> <<>>, log |-> <<>>], ops, 1, files, ft)

\* ---------------------------------------------------------------- the state
VARIABLES
  assets,    \* the image files on disk (images/ and ALZ_DIR); the scripts never write them
  charts,    \* chart files on disk: path -> content
  docs,      \* saved .pptx files on disk: path -> [valid, slides]
  script,    \* the script of the current (or last) run: "gc", "bp", "v2" ("" before any)
  status,    \* "idle", "running", "done", "aborted" (an exception left the script)
  pc,        \* the next call of the script's main routine
  prs,       \* the Presentation being built: its slides (lost when the script dies)
  locals,    \* main()'s chart_* variables of create_presentation_v2 (<<>>: unassigned)
  out,       \* what the run printed
  runs,      \* runs started in this session
  fault,     \* the point where an exception was raised in the last step (NoPoint: nowhere)
  exc,       \* the exception that ended the run ("" for none)
  saves,     \* prs.save calls of this run
  imgcalls,  \* the image calls of the last slide step
  prev,      \* the script of the run before this one, when that run completed ("" otherwise)
  mpl,       \* matplotlib's state in the running process: rcParams and the open figures
  stdout,    \* the encoding of the standard output of the current (or last) run's process
  rerun      \* this run was started right after a run of the same script, with the same
             \* stdout, that ended by itself or at a print (no library failure)

vars == <<assets, charts, docs, script, status, pc, prs, locals, out, runs, fault, exc,
          saves, imgcalls, prev, mpl, stdout, rerun>>

Scripts == {"gc", "bp", "v2"}

\* Every image asset the two assemblers name (chart files are not assets).
BodyImages(ops) == {ResolvedPath(ops[i]) : i \in {j \in 1..Len(ops) : IsImageCall(ops[j])}}
NoLocals == [chart_prevalence |-> <<>>, chart_ml |-> <<>>, chart_cnn_swin |-> <<>>, chart_leakage |-> <<>>]
AllLocals ==
  [chart_prevalence |-> generate_prevalence_chart.path, chart_ml |-> generate_classical_ml_chart.path,
   chart_cnn_swin |-> generate_cnn_vs_swin_chart.path, chart_leakage |-> generate_leakage_chart.path]
AllImages ==
  UNION {BodyImages(build_presentation[k]) : k \in 1..Len(build_presentation)}
  \cup UNION {BodyImages(main_slides(AllLocals)[k]) : k \in 1..Len(main_slides(AllLocals))}
AllAssets == {p \in AllImages : p[1] # CHARTS}

Files == assets \cup DOMAIN charts \cup DOMAIN docs

Corrupt == [valid |-> FALSE, slides |-> <<>>]

Init ==
  /\ assets \in {S \in SUBSET AllAssets : S = {} \/ Cardinality(AllAssets \ S) <= MaxMissing}
  /\ charts = <<>>
  /\ docs = <<>>
  /\ script = ""
  /\ status = "idle"
  /\ pc = 0
  /\ prs = <<>>
  /\ locals = NoLocals
  /\ out = <<>>
  /\ runs = 0
  /\ fault = NoPoint
  /\ exc = ""
  /\ saves = 0
  /\ imgcalls = <<>>
  /\ prev = ""
  /\ mpl = NewProcess
  /\ stdout = "utf-8"
  /\ rerun = FALSE

\* The length of each script's main routine.
ProgLen(s) ==
  CASE s = "gc" -> Len(gc_main)
    [] s = "bp" -> Len(build_presentation) + 2
    [] s = "v2" -> Len(main_charts) + Len(main_slides(NoLocals)) + 2

\* Sessions of several runs, failures of library calls and a stdout that
\* cannot encode every line are explored from the disks with every asset
\* present or every asset absent; the other disks of Init are explored by
\* single runs in which only missing images occur.
FullOrEmptyDisk == assets \in {{}, AllAssets}
RunsAllowed == IF FullOrEmptyDisk THEN MaxRuns ELSE 1
MayRaise(points) == IF FullOrEmptyDisk THEN points ELSE {}
Stdouts == IF FullOrEmptyDisk THEN Encodings ELSE {"utf-8"}

\* A script is started from the shell, when no script is running; the shell
\* gives the process its standard output.  The module-level code runs first:
\* when a library call of it raises, the run ends before the main routine is
\* reached (pc 0), with nothing printed and nothing written.
StartRun(s) ==
  /\ status # "running"
  /\ runs < RunsAllowed
  /\ stdout' \in Stdouts
  /\ rerun' = (s = script /\ stdout' = stdout /\ (status = "done" \/ exc = "UnicodeEncodeError"))
  /\ script' = s
  /\ \E f \in {NoPoint} \cup MayRaise(ImportPoints(s)) :
       /\ fault' = f
       /\ exc' = IF f = NoPoint THEN "" ELSE "LibraryError"
       /\ status' = IF f = NoPoint THEN "running" ELSE "aborted"
       /\ pc' = IF f = NoPoint THEN 1 ELSE 0
       /\ mpl' = IF f = NoPoint THEN ImportScript(s) ELSE ImportFailed(s, f)
  /\ prs' = <<>>
  /\ locals' = NoLocals
  /\ out' = <<>>
  /\ runs' = runs + 1
  /\ saves' = 0
  /\ imgcalls' = <<>>
  /\ prev' = IF status = "done" THEN script ELSE ""
  /\ UNCHANGED <<assets, charts, docs>>

\* What ends a step: the run goes on, completes, or dies with the exception.
Advance(raised) ==
  /\ exc' = raised
  /\ IF raised # "" THEN status' = "aborted" /\ pc' = pc
     ELSE /\ pc' = pc + 1
          /\ status' = IF pc + 1 > ProgLen(script) THEN "done" ELSE "running"

\* A chart function that never reaches savefig (C5 depends on the write).
WriteChart_nothing(c, f) == charts' = charts /\ mpl' = mpl

\* A chart function called in the running process: savefig writes (overwrites)
\* the file.  The library may raise before savefig has written, or after it
\* (plt.close).
WriteChart(c, f) ==
  LET r == chart_call(script, c, mpl, f, stdout)
  IN /\ charts' = IF r.saved THEN (c.path :> r.file) @@ charts ELSE charts
     /\ mpl' = r.mpl

\* The point of the exception a chart call ended with: where the library
\* raised, or the function's print.
RaisedAt(f, raised) == IF f # NoPoint THEN f ELSE IF raised # "" THEN "print" ELSE NoPoint

\* chartN_...() of generate_charts.py's main block: the function prints its
\* own line (with the check mark) before it returns.
gc_Chart ==
  /\ status = "running" /\ script = "gc"
  /\ \E f \in {NoPoint} \cup MayRaise(ChartPointsOf(script)) :
       LET c == gc_main[pc]
           raised == chart_call(script, c, mpl, f, stdout).raised
       IN /\ WriteChart(c, f)
          /\ fault' = RaisedAt(f, raised)
          /\ out' = IF raised = "" THEN Append(out, <<"Chart", pc>>) ELSE out
          /\ Advance(raised)
  /\ UNCHANGED <<assets, docs, script, prs, locals, runs, saves, imgcalls, prev, stdout, rerun>>

\* chart_x = generate_x_chart() and the print of the path in main().
v2_Chart ==
  /\ status = "running" /\ script = "v2" /\ pc <= Len(main_charts)
  /\ \E f \in {NoPoint} \cup MayRaise(ChartPointsOf(script)) :
       LET c == main_charts[pc].chart
           raised == chart_call(script, c, mpl, f, stdout).raised
       IN /\ WriteChart(c, f)
          /\ locals' = IF raised = "" THEN [locals EXCEPT ![main_charts[pc].var] = c.path] ELSE locals
          /\ fault' = RaisedAt(f, raised)
          /\ out' = IF raised = "" THEN Append(out, <<"->", c.path>>) ELSE out
          /\ Advance(raised)
  /\ UNCHANGED <<assets, docs, script, prs, runs, saves, imgcalls, prev, stdout, rerun>>

\* One slide: every call of its body, and the progress line after it.
SlideStep(s, k, ops) ==
  \E ft \in {NoFault} \cup MayRaise(Faults(s, ops, Files)) :
    LET r == RunSlide(s, prs, ops, Files, ft)
    IN /\ prs' = IF r.raised = "" THEN r.slides ELSE <<>>
       /\ out' = out \o r.out \o (IF r.raised = "" THEN << <<"Slide", k>> >> ELSE <<>>)
       /\ imgcalls' = r.log
       /\ fault' = ft.point
       /\ Advance(r.raised)

\* A slide step that also saves the deck built so far (C16 depends on the
\* slide steps leaving the output document alone).
bp_Slide_checkpoint ==
  /\ status = "running" /\ script = "bp" /\ pc <= Len(build_presentation)
  /\ SlideStep("bp", pc, build_presentation[pc])
  /\ docs' = (OUTPUT :> [valid |-> TRUE, slides |-> prs']) @@ docs
  /\ UNCHANGED <<assets, charts, script, locals, runs, saves, prev, mpl, stdout, rerun>>

bp_Slide ==
  /\ status = "running" /\ script = "bp" /\ pc <= Len(build_presentation)
  /\ SlideStep("bp", pc, build_presentation[pc])
  /\ UNCHANGED <<assets, charts, docs, script, locals, runs, saves, prev, mpl, stdout, rerun>>

v2_Slide ==
  /\ status = "running" /\ script = "v2"
  /\ pc > Len(main_charts) /\ pc <= Len(main_charts) + Len(main_slides(locals))
  /\ SlideStep("v2", pc - Len(main_charts), main_slides(locals)[pc - Len(main_charts)])
  /\ UNCHANGED <<assets, charts, docs, script, locals, runs, saves, prev, mpl, stdout, rerun>>

\* A save that opens the existing document and appends this run's slides to it
\* (C6 depends on the save replacing the file).
SaveStep_append(path) ==
  /\ \E f \in {NoPoint} \cup MayRaise({"lib"}) :
       /\ fault' = f
       /\ IF f = NoPoint
          THEN docs' = (path :> [valid |-> TRUE,
                                 slides |-> (IF path \in DOMAIN docs THEN docs[path].slides ELSE <<>>) \o prs]) @@ docs
          ELSE docs' \in {docs, (path :> Corrupt) @@ docs}
       /\ prs' = IF f = NoPoint THEN prs ELSE <<>>
       /\ Advance(IF f = NoPoint THEN "" ELSE "LibraryError")
  /\ saves' = saves + 1
  /\ UNCHANGED <<assets, charts, script, locals, out, runs, imgcalls, prev, mpl, stdout, rerun>>

\* prs.save(OUTPUT).  A save that raises has written nothing, or has left a
\* truncated file.
SaveStep(path) ==
  /\ \E f \in {NoPoint} \cup MayRaise({"lib"}) :
       /\ fault' = f
       /\ IF f = NoPoint
          THEN docs' = (path :> [valid |-> TRUE, slides |-> prs]) @@ docs
          ELSE docs' \in {docs, (path :> Corrupt) @@ docs}
       /\ prs' = IF f = NoPoint THEN prs ELSE <<>>
       /\ Advance(IF f = NoPoint THEN "" ELSE "LibraryError")
  /\ saves' = saves + 1
  /\ UNCHANGED <<assets, charts, script, locals, out, runs, imgcalls, prev, mpl, stdout, rerun>>

\* prs.save called one slide early, before slide 32 is built (C4 depends on the
\* save coming after the last slide).
bp_Save_early ==
  /\ status = "running" /\ script = "bp" /\ pc = Len(build_presentation)
  /\ SaveStep(OUTPUT)

bp_Save ==
  /\ status = "running" /\ script = "bp" /\ pc = Len(build_presentation) + 1
  /\ SaveStep(OUTPUT)

v2_Save ==
  /\ status = "running" /\ script = "v2"
  /\ pc = Len(main_charts) + Len(main_slides(locals)) + 1
  /\ SaveStep(v2_OUTPUT)

\* The prints that follow prs.save, after which the script exits: the "saved
\* to" line with the path, then the number of slides.  build_presentation.py's
\* first line starts with the check mark: on a stdout that cannot encode it
\* the run dies there, with the document saved and neither line printed.  The
\* second line calls the library, len(prs.slides): when that raises, the run
\* dies with the first line printed.
ClosingPrints(checkmark, path) ==
  \E f \in {NoPoint} \cup MayRaise({"lib"}) :
    LET raised == IF print_raises(checkmark, stdout) THEN "UnicodeEncodeError"
                  ELSE IF f = "lib" THEN "LibraryError" ELSE ""
    IN /\ out' = IF raised = "UnicodeEncodeError" THEN out
                 ELSE IF raised = "LibraryError" THEN Append(out, <<"saved to", path>>)
                 ELSE out \o << <<"saved to", path>>, <<"saved", Len(prs)>> >>
       /\ fault' = IF raised = "UnicodeEncodeError" THEN "print" ELSE f
       /\ prs' = <<>>
       /\ Advance(raised)
       /\ UNCHANGED <<assets, charts, docs, script, locals, runs, saves, imgcalls, prev, mpl, stdout, rerun>>

bp_Closing ==
  /\ status = "running" /\ script = "bp" /\ pc = Len(build_presentation) + 2
  /\ ClosingPrints(TRUE, OUTPUT)

v2_Closing ==
  /\ status = "running" /\ script = "v2"
  /\ pc = Len(main_charts) + Len(main_slides(locals)) + 2
  /\ ClosingPrints(FALSE, v2_OUTPUT)

Next ==
  \/ \E s \in Scripts : StartRun(s)
  \/ gc_Chart
  \/ v2_Chart
  \/ bp_Slide
  \/ v2_Slide
  \/ bp_Save
  \/ v2_Save
  \/ bp_Closing
  \/ v2_Closing

Spec == Init /\ [][Next]_vars

\* ===================================================================== claims
\* The slides of every document on disk and of the Presentation being built.
DeckOf(s) == IF s = "bp" THEN OUTPUT ELSE v2_OUTPUT
IsCitation(shape) == shape.by \in {"add_citation_strip", "add_citation"}
HasCitation(slide) == \E j \in 1..Len(slide.shapes) : IsCitation(slide.shapes[j])
Embedded(c) == Len(c.added) = 1 /\ c.added[1].kind = "picture" /\ c.added[1].image = c.path
Skipped(c) == c.added = <<>> /\ c.out = << <<"WARNING", c.path>> >>

\* C1: safe_add_image and add_image_safe add a picture shape exactly when the
\* resolved path exists; on a missing file they print the warning, add no
\* shape, return None / False and raise nothing, and the slide and the run
\* continue: every image call of a slide whose library calls did not fail is
\* followed by the slide's progress line, and a run whose last slide made
\* image calls is aborted only by a failing library call or, with every slide
\* built and the deck saved, by the closing print.
C1_PictureIffPathExists ==
  /\ \A i \in 1..Len(imgcalls) :
       LET c == imgcalls[i]
       IN /\ (c.path \notin Files) =>
               /\ Skipped(c)
               /\ c.ret \in {"None", "False"}
               /\ c.ret = (IF script = "bp" THEN "None" ELSE "False")
               /\ c.raised = ""
               /\ c.f = NoPoint
          /\ (c.path \in Files /\ c.f = NoPoint) =>
               /\ Embedded(c)
               /\ c.out = <<>>
               /\ c.raised = ""
          /\ Embedded(c) => c.path \in Files
  /\ (imgcalls # <<>> /\ fault # "lib") =>
        /\ out # <<>> /\ out[Len(out)][1] \in {"Slide", "saved"}
        /\ status = "aborted" =>
              /\ exc = "UnicodeEncodeError" /\ fault = "print"
              /\ script = "bp" /\ stdout = "ascii"
              /\ saves = 1 /\ pc = ProgLen("bp")
              /\ out[Len(out)] = <<"Slide", Len(build_presentation)>>
              /\ docs[OUTPUT].valid /\ Len(docs[OUTPUT].slides) = Len(build_presentation)
\* C1 witness: a create_presentation_v2 run has just passed a slide in which
\* both image calls were skipped (their files are absent) while
\* the run goes on.
C1_Witness ==
  /\ script = "v2" /\ status = "running" /\ fault = NoPoint
  /\ Len(imgcalls) = 2
  /\ \A i \in 1..2 : imgcalls[i].path \notin Files /\ imgcalls[i].ret = "False"
  /\ Len(prs) >= 1 /\ Len(prs[Len(prs)].shapes) > 0

\* C2: every slide_NN call of create_presentation_v2.main(), whatever images
\* are present, adds exactly one slide to the presentation and does not raise
\* (unless a library call itself fails outside a try block).
C2_OneSlidePerCall ==
  [][ (script = "v2" /\ status = "running"
         /\ pc > Len(main_charts) /\ pc <= Len(main_charts) + Len(main_slides(locals))
         /\ fault' # "lib")
      => /\ Len(prs') = Len(prs) + 1
         /\ SubSeq(prs', 1, Len(prs)) = prs
         /\ status' # "aborted" /\ exc' = ""
         /\ pc' = pc + 1 ]_vars
\* C2 witness: sixteen slide functions have run with every image absent; the
\* sixteenth (slide_16_cnn_experiments) skipped its images.
C2_Witness ==
  /\ script = "v2" /\ status = "running" /\ assets = {}
  /\ Len(prs) = 16 /\ pc = Len(main_charts) + 17
  /\ imgcalls # <<>> /\ \A i \in 1..Len(imgcalls) : Skipped(imgcalls[i])

\* C3: a completed build_presentation run has saved a deck of exactly 32
\* slides and a completed create_presentation_v2 run one of exactly 24, on
\* every disk (whichever images and charts exist).
C3_SlideCount ==
  /\ (status = "done" /\ script = "bp") =>
        /\ OUTPUT \in DOMAIN docs /\ docs[OUTPUT].valid
        /\ Len(docs[OUTPUT].slides) = 32
        /\ out[Len(out)] = <<"saved", 32>>
  /\ (status = "done" /\ script = "v2") =>
        /\ v2_OUTPUT \in DOMAIN docs /\ docs[v2_OUTPUT].valid
        /\ Len(docs[v2_OUTPUT].slides) = 24
        /\ out[Len(out)] = <<"saved", 24>>
\* C3 witness: build_presentation has completed on a disk with no image and no
\* chart at all, and its deck has 32 slides without any picture.
C3_Witness ==
  /\ status = "done" /\ script = "bp" /\ assets = {} /\ charts = <<>>
  /\ Len(docs[OUTPUT].slides) = 32
  /\ \A k \in 1..32 : \A j \in 1..Len(docs[OUTPUT].slides[k].shapes) :
        docs[OUTPUT].slides[k].shapes[j].kind # "picture"

\* C4: in an assembler run the document is written once, by a step that comes
\* after the progress line of the last slide, with all slides in the
\* Presentation, and a save that succeeds writes exactly those slides; after
\* prs.save the run adds no slide or shape, saves no more and writes no
\* document (only the closing prints follow, which may end the run), and a
\* completed run has saved exactly once.
C4_SaveOnceAtEnd ==
  [][ /\ (docs' # docs) =>
            /\ script \in {"bp", "v2"} /\ status = "running"
            /\ saves = 0 /\ saves' = 1
            /\ LET n == IF script = "bp" THEN Len(build_presentation) ELSE Len(main_slides(locals))
               IN /\ Len(prs) = n
                  /\ out # <<>> /\ out[Len(out)] = <<"Slide", n>>
                  /\ \A k \in 1..n : prs[k].bgAt = 0
            /\ \A p \in DOMAIN docs' : p # DeckOf(script) => (p \in DOMAIN docs /\ docs'[p] = docs[p])
            /\ status' # "aborted" => docs'[DeckOf(script)] = [valid |-> TRUE, slides |-> prs]
      /\ (saves >= 1) =>
            /\ docs' = docs
            /\ runs' = runs => (saves' = saves /\ prs' \in {prs, <<>>} /\ status' \in {"done", "aborted"})
            /\ runs' # runs => (runs' = runs + 1 /\ saves' = 0)
      /\ (saves' > saves) => (saves = 0 /\ saves' = 1)
      /\ (status' = "done" /\ script' \in {"bp", "v2"}) => saves' = 1 ]_vars
\* C4 witness: a create_presentation_v2 run has completed with one save of all
\* 24 slides.
C4_Witness ==
  /\ script = "v2" /\ status = "done" /\ saves = 1
  /\ v2_OUTPUT \in DOMAIN docs /\ Len(docs[v2_OUTPUT].slides) = 24
  /\ out[Len(out)] = <<"saved", 24>>

\* An image call that names a file of generated_charts/.
IsChartCall(c) == c.path[1] = CHARTS

\* C5 as stated: in every run of either assembler no chart of generated_charts/
\* is skipped as a missing image (every chart a slide names is on disk when the
\* slide is built).
C5_NoChartSkipped ==
  script \in {"bp", "v2"} =>
    \A i \in 1..Len(imgcalls) :
      IsChartCall(imgcalls[i]) => (imgcalls[i].path \in DOMAIN charts /\ ~Skipped(imgcalls[i]))
\* C5 amended: in a create_presentation_v2 run every chart a slide names was
\* written earlier in that run by its generate_* function and is not skipped;
\* build_presentation writes no chart: it embeds a chart exactly when the file
\* is on disk, which needs an earlier run (in this session) to have written
\* it, and otherwise skips it with the warning.
C5_ChartsBeforeSlides ==
  /\ script = "v2" =>
       \A i \in 1..Len(imgcalls) :
         LET c == imgcalls[i]
         IN IsChartCall(c) =>
              /\ c.path \in DOMAIN charts
              /\ c.path \in {locals[v] : v \in DOMAIN locals}
              /\ \E n \in 1..Len(main_charts) :
                    /\ main_charts[n].chart.path = c.path
                    /\ charts[c.path].by = main_charts[n].chart.content.by
                    /\ charts[c.path].data = main_charts[n].chart.content.data
              /\ ~Skipped(c)
              /\ c.f = NoPoint => Embedded(c)
  /\ script = "bp" =>
       /\ runs = 1 => charts = <<>>
       /\ \A i \in 1..Len(imgcalls) :
            LET c == imgcalls[i]
            IN IsChartCall(c) =>
                 /\ c.path \in DOMAIN charts <=> ~Skipped(c)
                 /\ c.path \notin DOMAIN charts => (Skipped(c) /\ c.raised = "")
                 /\ (c.path \in DOMAIN charts /\ c.f = NoPoint) => Embedded(c)
                 /\ c.path \in DOMAIN charts => runs >= 2
\* C5 witness: build_presentation, run after a chart-writing run, has embedded
\* a chart in the slide it just built.
C5_Witness ==
  /\ script = "bp" /\ runs = 2 /\ status = "running"
  /\ \E i \in 1..Len(imgcalls) : IsChartCall(imgcalls[i]) /\ Embedded(imgcalls[i])

\* C6: a run of a script that directly follows a run of the same script under
\* the same conditions (same asset files, same stdout; the first run completed,
\* or died at a print as the second then does) rewrites every output file with
\* the content it already has and creates no other file: no step of the second
\* run in which no library call fails changes the set of files, a chart file
\* or a document, and the second run ends as the first did.
C6_RerunIdempotent ==
  [][ (rerun /\ status = "running" /\ (status' # "aborted" \/ exc' = "UnicodeEncodeError"))
      => /\ charts' = charts
         /\ docs' = docs
         /\ assets' = assets
         /\ status' = "done" => prev = script
         /\ status' = "aborted" => prev = "" ]_vars
\* C6 witness: create_presentation_v2 has completed twice in a row and the deck
\* on disk is the 24-slide deck.
C6_Witness ==
  /\ script = "v2" /\ prev = "v2" /\ rerun /\ status = "done" /\ runs = 2
  /\ Len(docs[v2_OUTPUT].slides) = 24
  /\ DOMAIN charts = {main_charts[n].chart.path : n \in 1..Len(main_charts)}

\* C7: a chart function that returns has written exactly one file, at its
\* fixed name inside generated_charts/, and left every other file alone; the
\* create_presentation_v2 functions return (main() stores) that file's path.
C7_OneFilePerChart ==
  [][ (status = "running" /\ status' # "aborted"
         /\ (script = "gc" \/ (script = "v2" /\ pc <= 4)))
      => LET gc == <<"prevalence_projection.png", "ml_comparison.png",
                     "roc_curve.png", "data_leakage_impact.png">>
             v2 == <<"prevalence_projection.png", "classical_ml_comparison.png",
                     "cnn_vs_swin_comparison.png", "data_leakage_impact.png">>
             fn == <<"chart1_prevalence", "chart2_ml_comparison", "chart3_roc_curve", "chart4_data_leakage",
                     "generate_prevalence_chart", "generate_classical_ml_chart",
                     "generate_cnn_vs_swin_chart", "generate_leakage_chart">>
             var == <<"chart_prevalence", "chart_ml", "chart_cnn_swin", "chart_leakage">>
             p == <<"/repo/Presentation /generated_charts", IF script = "gc" THEN gc[pc] ELSE v2[pc]>>
         IN /\ DOMAIN charts' = DOMAIN charts \cup {p}
            /\ \A q \in DOMAIN charts : q # p => charts'[q] = charts[q]
            /\ charts'[p].by = fn[IF script = "gc" THEN pc ELSE pc + 4]
            /\ charts'[p].data # <<>>
            /\ docs' = docs /\ assets' = assets
            /\ script = "v2" => (locals'[var[pc]] = p /\ out'[Len(out')] = <<"->", p>>) ]_vars
\* C7 witness: the four generate_* functions of create_presentation_v2 have
\* returned; the four locals hold four different paths, each a file on disk.
C7_Witness ==
  /\ script = "v2" /\ status = "running" /\ pc = 5
  /\ Cardinality({locals[v] : v \in DOMAIN locals}) = 4
  /\ {locals[v] : v \in DOMAIN locals} = DOMAIN charts

\* C8: whenever an exception is raised during a run (by a library call made
\* by a helper, by a chart function, by a print), anywhere but in the
\* missing-image case, it is not caught and the run aborts.
C8_EveryExceptionAborts ==
  fault # NoPoint => (status = "aborted" /\ exc # "")

\* C9: in every slide (of the Presentation being built and of every saved
\* deck) the background was set while the slide had no shape, and the shapes
\* of the citation strip, when there are any, come after every other shape
\* and all from one call.
C9_DrawOrder ==
  LET decks == {prs} \cup {docs[p].slides : p \in DOMAIN docs}
  IN \A d \in decks : \A k \in 1..Len(d) :
       LET sl == d[k]
       IN /\ sl.bgAt = 0 /\ sl.bg # ""
          /\ \A j \in 1..Len(sl.shapes) :
               IsCitation(sl.shapes[j]) =>
                 \A m \in j..Len(sl.shapes) :
                    IsCitation(sl.shapes[m]) /\ sl.shapes[m].ln = sl.shapes[j].ln
\* C9 witness: a saved build_presentation deck has a slide with a picture
\* below text, and the two shapes of the citation strip on top.
C9_Witness ==
  /\ OUTPUT \in DOMAIN docs /\ docs[OUTPUT].valid
  /\ \E k \in 1..Len(docs[OUTPUT].slides) :
       LET sh == docs[OUTPUT].slides[k].shapes
           n == Len(sh)
       IN /\ n >= 4
          /\ \E j \in 1..(n - 2) : sh[j].kind = "picture"
          /\ IsCitation(sh[n - 1]) /\ IsCitation(sh[n])
          /\ ~IsCitation(sh[n - 2])

\* C10 as stated: every slide of both decks contains a citation strip.
C10_EverySlideCited ==
  LET decks == {prs} \cup {docs[p].slides : p \in DOMAIN docs}
  IN \A d \in decks : \A k \in 1..Len(d) : HasCitation(d[k])
\* C10 amended: every slide of the build_presentation deck contains a citation
\* strip; of the create_presentation_v2 deck every slide does except slides
\* 1 (title), 6 (section divider) and 24 (thank you), which contain none.
C10_CitedExceptThree ==
  /\ \A k \in 1..Len(prs) :
       HasCitation(prs[k]) <=> (script = "bp" \/ k \notin {1, 6, 24})
  /\ OUTPUT \in DOMAIN docs =>
       \A k \in 1..Len(docs[OUTPUT].slides) : HasCitation(docs[OUTPUT].slides[k])
  /\ v2_OUTPUT \in DOMAIN docs =>
       \A k \in 1..Len(docs[v2_OUTPUT].slides) :
          HasCitation(docs[v2_OUTPUT].slides[k]) <=> k \notin {1, 6, 24}
\* C10 witness: both decks are on disk, 32 slides all cited and 24 slides of
\* which exactly 21 are cited.
C10_Witness ==
  /\ OUTPUT \in DOMAIN docs /\ v2_OUTPUT \in DOMAIN docs
  /\ Cardinality({k \in 1..Len(docs[OUTPUT].slides) : HasCitation(docs[OUTPUT].slides[k])}) = 32
  /\ Cardinality({k \in 1..Len(docs[v2_OUTPUT].slides) : HasCitation(docs[v2_OUTPUT].slides[k])}) = 21
  /\ Len(docs[v2_OUTPUT].slides) = 24

\* --------------------------------------------- chart functions in any order
\* A process that has imported one of the two chart-writing scripts and calls
\* that script's chart functions in any order, any number of times (MaxCalls
\* calls at most).  A call may raise (before or after its savefig) and the
\* caller go on: the figure the failed call opened stays open.  out records
\* the calls made: <<index of the function, where the library raised, the
\* exception the call ended with>>.
ChartFunctions(s) == IF s = "gc" THEN gc_main ELSE [i \in 1..Len(main_charts) |-> main_charts[i].chart]

ChartInit ==
  /\ assets = AllAssets
  /\ charts = <<>>
  /\ docs = <<>>
  /\ script \in {"gc", "v2"}
  /\ status = "running"
  /\ pc = 0
  /\ prs = <<>>
  /\ locals = NoLocals
  /\ out = <<>>
  /\ runs = 1
  /\ fault = NoPoint
  /\ exc = ""
  /\ saves = 0
  /\ imgcalls = <<>>
  /\ prev = ""
  /\ mpl = ImportScript(script)
  /\ stdout \in Encodings
  /\ rerun = FALSE

CallAnyChart ==
  /\ Len(out) < MaxCalls
  /\ \E i \in 1..Len(ChartFunctions(script)) : \E f \in {NoPoint} \cup ChartPointsOf(script) :
       LET raised == chart_call(script, ChartFunctions(script)[i], mpl, f, stdout).raised
       IN /\ WriteChart(ChartFunctions(script)[i], f)
          /\ out' = Append(out, <<i, f, raised>>)
          /\ fault' = RaisedAt(f, raised)
  /\ UNCHANGED <<assets, docs, script, status, pc, prs, locals, runs, exc, saves, imgcalls, prev,
                 stdout, rerun>>

ChartNext == CallAnyChart

ChartSpec == ChartInit /\ [][ChartNext]_vars

\* C11: whatever chart functions of the script were called before, in whatever
\* order and however often, every chart file on disk has the content its
\* function writes when it alone is called once in a new process, and a file
\* is on disk exactly when a call of its function reached savefig (a call the
\* library interrupted inside savefig leaves what that call leaves when made
\* alone, a partial file, until the function is called again).  What a call
\* leaves behind besides its file does not depend on the other calls either:
\* the open figures are those of the calls in which the library raised after
\* plt.subplots had created theirs, the rcParams are the script's style once
\* an import or a setup_mpl() has set them (before that the defaults, or a
\* part of the style after a setup_mpl() that failed partway, which no figure
\* is ever created under), and a call ends with UnicodeEncodeError
\* exactly when it is a generate_charts.py function that reached its print on
\* a stdout that cannot encode the check mark (file complete, figure closed),
\* as the same call does when made alone.
C11_ChartsIndependent ==
  \A i \in 1..Len(ChartFunctions(script)) :
    LET c == ChartFunctions(script)[i]
        alone == chart_call(script, c, ImportScript(script), NoPoint, stdout)
        wrote == {n \in 1..Len(out) : out[n][1] = i /\ out[n][2] \notin UpdatePoints \cup {"in_subplots", "before_save"}}
        styled == {n \in 1..Len(out) : out[n][2] \notin UpdatePoints}
        last == CHOOSE n \in wrote : \A j \in wrote : j <= n
    IN /\ c.path \in DOMAIN charts <=> wrote # {}
       /\ (c.path \in DOMAIN charts /\ out[last][2] # "in_save") =>
            /\ charts[c.path] = alone.file
            /\ charts[c.path].by = c.content.by
            /\ charts[c.path].data = c.content.data
       /\ (c.path \in DOMAIN charts /\ out[last][2] = "in_save") =>
            charts[c.path] = chart_call(script, c, ImportScript(script), "in_save", stdout).file
       /\ Len(mpl.figs) = Cardinality({n \in 1..Len(out) : out[n][2] \in ChartPoints \ {"in_subplots"}})
       /\ mpl.rc = IF script = "gc" \/ styled # {} THEN script
                   ELSE IF \E n \in 1..Len(out) : out[n][2] = "in_update_partway" THEN "partial"
                   ELSE "default"
       /\ \A p \in DOMAIN charts : charts[p] # PartialChart => charts[p].style = script
       /\ \A n \in 1..Len(mpl.figs) : mpl.figs[n].style = script
       /\ \A n \in 1..Len(out) :
            /\ out[n][1] = i => out[n][3] = chart_call(script, c, ImportScript(script), out[n][2], stdout).raised
            /\ out[n][3] = "UnicodeEncodeError" <=>
                  (script = "gc" /\ stdout = "ascii" /\ out[n][2] = NoPoint)
\* C11 witness: create_presentation_v2's functions were called out of order
\* and repeatedly (4 interrupted inside savefig, then 1 failing before
\* savefig, then 4 again) and the complete leakage chart is on disk while the
\* figures of the two failed calls are still open.
C11_Witness ==
  /\ script = "v2" /\ Len(out) = 3
  /\ out[1] = <<4, "in_save", "LibraryError">> /\ out[2] = <<1, "before_save", "LibraryError">>
  /\ out[3] = <<4, NoPoint, "">>
  /\ DOMAIN charts = {generate_leakage_chart.path}
  /\ charts[generate_leakage_chart.path].by = "generate_leakage_chart"
  /\ Len(mpl.figs) = 2

\* The file an image call looked for: the picture's file when it embedded one,
\* the path of its warning when it skipped.
PathRead(c) == IF c.added # <<>> THEN c.added[1].image
               ELSE IF c.out # <<>> THEN c.out[1][2] ELSE c.path

\* C12 as stated: every image either assembler looks for is under the
\* repository's images/ directory or is a chart under generated_charts/.
C12_OneAssetDirectory ==
  \A i \in 1..Len(imgcalls) :
    PathRead(imgcalls[i])[1] \in {"/repo/images", "/repo/Presentation /generated_charts"}
\* C12 amended: build_presentation looks for images under images/ and
\* generated_charts/ only; create_presentation_v2 also reads from the absolute
\* directory ALZ_DIR = /home/paris/Code/AlzTheBatch, outside the repository:
\* exactly the two images of slide 16 and the image of slide 17, and no image
\* of another slide.
C12_AssetDirectories ==
  \A i \in 1..Len(imgcalls) :
    LET c == imgcalls[i]
        dir == PathRead(c)[1]
    IN /\ PathRead(c) = c.path
       /\ script = "bp" => dir \in {"/repo/images", "/repo/Presentation /generated_charts"}
       /\ script = "v2" =>
            /\ dir \in {"/repo/images", "/repo/Presentation /generated_charts",
                        "/home/paris/Code/AlzTheBatch"}
            /\ dir = "/home/paris/Code/AlzTheBatch" <=> c.slide \in {16, 17}
\* C12 witness: slide 16 of create_presentation_v2 has just embedded its two
\* images from /home/paris/Code/AlzTheBatch.
C12_Witness ==
  /\ script = "v2" /\ Len(prs) = 16 /\ Len(imgcalls) = 2
  /\ \A i \in 1..2 : Embedded(imgcalls[i]) /\ imgcalls[i].added[1].image[1] = "/home/paris/Code/AlzTheBatch"

\* C13: in every deck, being built or saved, the slide at position k carries
\* only shapes added by the code of slide k (lines of the k-th slide block of
\* build_presentation, lines of the function slide_k... of
\* create_presentation_v2), so no slide is inserted, reordered or removed; and
\* the progress lines printed so far are 'Slide 1' .. 'Slide n' in order, n
\* being the number of slides built.
C13_SlidesInDefinitionOrder ==
  LET bp == << <<162, 190>>, <<195, 222>>, <<227, 247>>, <<252, 290>>, <<295, 327>>, <<332, 375>>,
               <<380, 398>>, <<403, 435>>, <<440, 475>>, <<480, 514>>, <<519, 573>>, <<578, 615>>,
               <<620, 660>>, <<665, 698>>, <<703, 735>>, <<740, 770>>, <<775, 814>>, <<819, 867>>,
               <<872, 904>>, <<909, 948>>, <<953, 986>>, <<991, 1009>>, <<1014, 1047>>, <<1052, 1082>>,
               <<1087, 1133>>, <<1138, 1194>>, <<1199, 1243>>, <<1248, 1289>>, <<1294, 1340>>,
               <<1345, 1375>>, <<1380, 1398>>, <<1403, 1432>> >>
      v2 == << <<406, 433>>, <<436, 468>>, <<471, 526>>, <<529, 563>>, <<566, 622>>, <<625, 641>>,
               <<644, 676>>, <<679, 727>>, <<730, 774>>, <<777, 823>>, <<826, 872>>, <<875, 909>>,
               <<912, 946>>, <<949, 1012>>, <<1015, 1056>>, <<1059, 1097>>, <<1100, 1156>>,
               <<1159, 1224>>, <<1227, 1284>>, <<1287, 1318>>, <<1321, 1352>>, <<1355, 1410>>,
               <<1413, 1450>>, <<1453, 1480>> >>
      InOrder(d, lines) ==
        /\ Len(d) <= Len(lines)
        /\ \A k \in 1..Len(d) :
             /\ d[k].shapes # <<>>
             /\ \A j \in 1..Len(d[k].shapes) :
                  d[k].shapes[j].ln >= lines[k][1] /\ d[k].shapes[j].ln <= lines[k][2]
      progress == SelectSeq(out, LAMBDA e : e[1] = "Slide")
  IN /\ script = "bp" => InOrder(prs, bp)
     /\ script = "v2" => InOrder(prs, v2)
     /\ OUTPUT \in DOMAIN docs => InOrder(docs[OUTPUT].slides, bp)
     /\ v2_OUTPUT \in DOMAIN docs => InOrder(docs[v2_OUTPUT].slides, v2)
     /\ (script \in {"bp", "v2"} /\ status = "running") =>
          /\ Len(progress) = Len(prs)
          /\ \A k \in 1..Len(progress) : progress[k] = <<"Slide", k>>
\* C13 witness: a saved create_presentation_v2 deck whose 8th slide was built
\* by slide_08_beyond_mri (lines 679-727) and whose 24th by slide_24_thank_you.
C13_Witness ==
  /\ v2_OUTPUT \in DOMAIN docs /\ docs[v2_OUTPUT].valid
  /\ LET d == docs[v2_OUTPUT].slides
     IN /\ Len(d) = 24
        /\ d[8].shapes[1].ln >= 679 /\ d[8].shapes[1].ln <= 727
        /\ d[24].shapes[1].ln >= 1453

\* The positions of the slides of a deck that hold a picture of file p.
SlidesEmbedding(d, p) ==
  {k \in 1..Len(d) : \E j \in 1..Len(d[k].shapes) :
      d[k].shapes[j].kind = "picture" /\ d[k].shapes[j].image = p}
\* The chart files a deck holds pictures of.
ChartsEmbedded(d) ==
  {d[k].shapes[j].image : <<k, j>> \in
      {x \in (1..Len(d)) \X (1..60) : x[2] <= Len(d[x[1]].shapes)
          /\ d[x[1]].shapes[x[2]].kind = "picture"
          /\ d[x[1]].shapes[x[2]].image[1] = "/repo/Presentation /generated_charts"}}

\* C14: the chart files generate_charts.py writes are exactly the chart files
\* build_presentation refers to; in a deck build_presentation saved with those
\* four files on disk each is on exactly one slide, the one its chart
\* function's docstring names (2, 16, 19, 23); and in every deck
\* create_presentation_v2 saved each of its four charts is on exactly the slide
\* its docstring names (2, 13, 18, 19).
C14_ChartsOnTheirSlides ==
  LET dir == "/repo/Presentation /generated_charts"
      gcdoc == << <<"prevalence_projection.png", 2>>, <<"ml_comparison.png", 16>>,
                  <<"roc_curve.png", 19>>, <<"data_leakage_impact.png", 23>> >>
      v2doc == << <<"prevalence_projection.png", 2>>, <<"classical_ml_comparison.png", 13>>,
                  <<"cnn_vs_swin_comparison.png", 18>>, <<"data_leakage_impact.png", 19>> >>
      written == {gc_main[i].path : i \in 1..Len(gc_main)}
      referred == {p \in UNION {BodyImages(build_presentation[k]) : k \in 1..Len(build_presentation)} :
                     p[1] = dir}
  IN /\ written = referred
     /\ written = {<<dir, gcdoc[i][1]>> : i \in 1..4}
     /\ \A i \in 1..4 : gc_main[i].path = <<dir, gcdoc[i][1]>>
     /\ \A i \in 1..4 : main_charts[i].chart.path = <<dir, v2doc[i][1]>>
     /\ (script = "bp" /\ status = "done" /\ written \subseteq DOMAIN charts) =>
           /\ \A i \in 1..4 : SlidesEmbedding(docs[OUTPUT].slides, <<dir, gcdoc[i][1]>>) = {gcdoc[i][2]}
           /\ ChartsEmbedded(docs[OUTPUT].slides) = written
     /\ (script = "v2" /\ status = "done") =>
           /\ \A i \in 1..4 : SlidesEmbedding(docs[v2_OUTPUT].slides, <<dir, v2doc[i][1]>>) = {v2doc[i][2]}
           /\ ChartsEmbedded(docs[v2_OUTPUT].slides) = {<<dir, v2doc[i][1]>> : i \in 1..4}
\* C14 witness: build_presentation has completed after a completed run of
\* generate_charts.py, and its deck holds the ROC chart on slide 19.
C14_Witness ==
  /\ script = "bp" /\ status = "done" /\ prev = "gc" /\ assets = AllAssets
  /\ SlidesEmbedding(docs[OUTPUT].slides, <<"/repo/Presentation /generated_charts", "roc_curve.png">>) = {19}
  /\ Cardinality(ChartsEmbedded(docs[OUTPUT].slides)) = 4


\* C15: in every order of runs of the three scripts, the prevalence chart
\* build_presentation embeds on slide 2 and the leakage chart it embeds on
\* slide 23 are the files generate_charts.py rendered from its own data
\* (chart1_prevalence, chart4_data_leakage); no other script has overwritten
\* them.
C15_EmbedsGeneratorCharts ==
  (script = "bp" /\ status \in {"running", "done"}) =>
    \A n \in {1, 4} :
      LET c == gc_main[n]
          k == IF n = 1 THEN 2 ELSE 23
      IN (Len(prs) >= k /\ k \in SlidesEmbedding(prs, c.path)) =>
            /\ charts[c.path].by = c.content.by
            /\ charts[c.path].data = c.content.data


\* C16: no step of an assembler run other than its final prs.save touches the
\* output document, so a run that aborts before the save leaves the documents
\* on disk exactly as they were (the deck of an earlier run unchanged, no
\* partial deck); no chart file disappears, and the charts
\* create_presentation_v2.main() has written in the run are still there.
C16_AbortWritesNoDocument ==
  [][(status = "running" /\ script \in {"bp", "v2"} /\ saves' = saves) =>
        /\ docs' = docs
        /\ DOMAIN charts \subseteq DOMAIN charts'
        /\ (script = "v2" /\ status' = "aborted") =>
              \A i \in 1..Len(main_charts) : i < pc =>
                 /\ main_charts[i].chart.path \in DOMAIN charts'
                 /\ charts'[main_charts[i].chart.path].by = main_charts[i].chart.content.by
     ]_vars
\* C16 witness: a create_presentation_v2 run has aborted in a slide, before
\* its save, while the deck of an earlier completed run is on disk.
C16_Witness ==
  /\ script = "v2" /\ status = "aborted" /\ saves = 0 /\ pc > Len(main_charts)
  /\ v2_OUTPUT \in DOMAIN docs /\ docs[v2_OUTPUT].valid
  /\ Len(docs[v2_OUTPUT].slides) = 24
  /\ \A i \in 1..Len(main_charts) : main_charts[i].chart.path \in DOMAIN charts


\* The shapes one citation call (the call at source line l) added to a slide,
\* in the order it added them.
CitationShapes(slide, l) ==
  SelectSeq(slide.shapes, LAMBDA sh : IsCitation(sh) /\ sh.ln = l)
CitationLines(slide) ==
  {slide.shapes[j].ln : j \in {i \in 1..Len(slide.shapes) : IsCitation(slide.shapes[i])}}
IsCitationText(sh) == sh.kind = "textbox" /\ sh.size = 9 /\ sh.italic
\* The decks in existence: the one being built and the valid ones on disk.
Decks ==
  {<<script, prs>>} \cup
  {<<s, docs[DeckOf(s)].slides>> : s \in {t \in {"bp", "v2"} : DeckOf(t) \in DOMAIN docs /\ docs[DeckOf(t)].valid}}

\* C17 as stated: every citation call of either script has added exactly two
\* shapes, a filled rectangle bar and a 9 pt italic text box.
C17_BarAndTextEverywhere ==
  \A d \in Decks : \A k \in 1..Len(d[2]) : \A l \in CitationLines(d[2][k]) :
    LET cs == CitationShapes(d[2][k], l)
    IN Len(cs) = 2 /\ cs[1].kind = "rect" /\ IsCitationText(cs[2])
\* C17: every add_citation_strip call of build_presentation has added exactly
\* two shapes, a filled rectangle bar and then a 9 pt italic text box; every
\* add_citation call of create_presentation_v2 has added exactly one shape, a
\* 9 pt italic text box, and no bar.
C17_CitationShapes ==
  \A d \in Decks : \A k \in 1..Len(d[2]) : \A l \in CitationLines(d[2][k]) :
    LET cs == CitationShapes(d[2][k], l)
    IN IF d[1] = "bp"
       THEN /\ Len(cs) = 2
            /\ cs[1].kind = "rect" /\ cs[1].color \in {CITE_BAR_DARK, CITE_BAR_LIGHT}
            /\ IsCitationText(cs[2])
            /\ \A j \in 1..2 : cs[j].by = "add_citation_strip"
       ELSE /\ Len(cs) = 1
            /\ IsCitationText(cs[1])
            /\ cs[1].by = "add_citation"
\* C17 witness: a saved build_presentation deck whose slide 2 has the two
\* shapes of its citation strip, and a saved create_presentation_v2 deck whose
\* slide 2 has the single text box of its citation.
C17_Witness ==
  /\ OUTPUT \in DOMAIN docs /\ docs[OUTPUT].valid
  /\ v2_OUTPUT \in DOMAIN docs /\ docs[v2_OUTPUT].valid
  /\ \E l \in CitationLines(docs[OUTPUT].slides[2]) : Len(CitationShapes(docs[OUTPUT].slides[2], l)) = 2
  /\ \E l \in CitationLines(docs[v2_OUTPUT].slides[2]) : Len(CitationShapes(docs[v2_OUTPUT].slides[2], l)) = 1


\* sh lies inside the rectangle of bar.
Inside(sh, bar) ==
  /\ sh.left >= bar.left /\ sh.top >= bar.top
  /\ sh.left + sh.width <= bar.left + bar.width
  /\ sh.top + sh.height <= bar.top + bar.height

\* C18: the bar of every add_citation_strip call starts at the slide's left
\* edge, is exactly SLIDE_W wide and ends exactly at the slide's bottom edge
\* (top + height = SLIDE_H), and the call's text box lies entirely inside the
\* bar.
C18_StripSpansBottomEdge ==
  \A d \in Decks : d[1] = "bp" =>
    \A k \in 1..Len(d[2]) : \A l \in CitationLines(d[2][k]) :
      LET cs == CitationShapes(d[2][k], l)
          bar == cs[1]
          txt == cs[2]
      IN /\ bar.kind = "rect" /\ txt.kind = "textbox"
         /\ bar.left = 0
         /\ bar.width = SLIDE_W /\ bar.width = 12191695
         /\ bar.top + bar.height = SLIDE_H /\ SLIDE_H = 6858000
         /\ bar.height > 0 /\ txt.width > 0 /\ txt.height > 0
         /\ Inside(txt, bar)
\* C18 witness: build_presentation is past slide 1, whose citation strip (line
\* 189) has a bar 502920 EMU high and a text box that starts inside it.
C18_Witness ==
  /\ script = "bp" /\ Len(prs) >= 1
  /\ LET cs == CitationShapes(prs[1], 189)
     IN Len(cs) = 2 /\ cs[1].height = 502920 /\ cs[2].left = 457200 /\ cs[2].top > cs[1].top


\* The calls of the body that built slide k of a deck of script s.
BodyOf(s, k) == IF s = "bp" THEN build_presentation[k] ELSE main_slides(AllLocals)[k]
\* The dark flag a citation call passed (dark_bg of add_citation_strip, bg_dark
\* of add_citation; the tables hold the default where the call omits it).
DarkFlag(op) == IF op.h = "add_citation_strip" THEN op.dark_bg ELSE op.bg_dark
CitationCalls(s, k) ==
  {i \in 1..Len(BodyOf(s, k)) : BodyOf(s, k)[i].h \in {"add_citation_strip", "add_citation"}}

\* C19: on every cited slide of both decks the background is DARK_BG or
\* LIGHT_BG and the dark flag of its citation call is true exactly when it is
\* DARK_BG and false exactly when it is LIGHT_BG; in build_presentation the
\* bar accordingly has the dark bar colour exactly on the dark slides.
C19_DarkFlagMatchesBackground ==
  \A d \in Decks : d[1] \in {"bp", "v2"} =>
    \A k \in 1..Len(d[2]) :
      LET slide == d[2][k]
      IN HasCitation(slide) =>
           /\ slide.bg \in {DARK_BG, LIGHT_BG}
           /\ CitationCalls(d[1], k) # {}
           /\ \A i \in CitationCalls(d[1], k) :
                /\ DarkFlag(BodyOf(d[1], k)[i]) = (slide.bg = DARK_BG)
                /\ (~DarkFlag(BodyOf(d[1], k)[i])) = (slide.bg = LIGHT_BG)
           /\ d[1] = "bp" =>
                \A l \in CitationLines(slide) :
                   CitationShapes(slide, l)[1].color =
                      (IF slide.bg = DARK_BG THEN CITE_BAR_DARK ELSE CITE_BAR_LIGHT)
\* C19 witness: both decks are saved; slide 2 of each is light and cited, and
\* slide 3 of each is dark and cited.
C19_Witness ==
  /\ OUTPUT \in DOMAIN docs /\ docs[OUTPUT].valid
  /\ v2_OUTPUT \in DOMAIN docs /\ docs[v2_OUTPUT].valid
  /\ \A p \in {OUTPUT, v2_OUTPUT} :
       /\ docs[p].slides[2].bg = LIGHT_BG /\ HasCitation(docs[p].slides[2])
       /\ docs[p].slides[3].bg = DARK_BG /\ HasCitation(docs[p].slides[3])
  /\ ~DarkFlag(BodyOf("v2", 2)[Len(BodyOf("v2", 2))])


\* The slide size of a script's deck.
SlideW(s) == IF s = "bp" THEN SLIDE_W ELSE v2_SLIDE_W
SlideH(s) == IF s = "bp" THEN SLIDE_H ELSE v2_SLIDE_H
\* A shape placed with both an explicit width and an explicit height (a picture
\* given only one of them has 0 for the other).
HasExtent(sh) == sh.width # 0 /\ sh.height # 0
WithinSlide(sh, s) ==
  /\ sh.left >= 0 /\ sh.top >= 0
  /\ sh.left + sh.width <= SlideW(s)
  /\ sh.top + sh.height <= SlideH(s)

\* C20: every shape placed with an explicit width and height lies within the
\* slide of its script: left >= 0, top >= 0, left + width <= SLIDE_W and
\* top + height <= SLIDE_H.
C20_ShapesWithinSlide ==
  \A d \in Decks : d[1] \in {"bp", "v2"} =>
    \A k \in 1..Len(d[2]) : \A j \in 1..Len(d[2][k].shapes) :
      HasExtent(d[2][k].shapes[j]) => WithinSlide(d[2][k].shapes[j], d[1])
\* C20 witness: both decks are saved; the citation bar of build_presentation's
\* slide 1 reaches the right and bottom edges exactly, and the citation text of
\* create_presentation_v2's slide 2 ends 0.1 inch above the bottom edge.
C20_Witness ==
  /\ OUTPUT \in DOMAIN docs /\ docs[OUTPUT].valid
  /\ v2_OUTPUT \in DOMAIN docs /\ docs[v2_OUTPUT].valid
  /\ LET bar == CitationShapes(docs[OUTPUT].slides[1], 189)[1]
         txt == CitationShapes(docs[v2_OUTPUT].slides[2], 468)[1]
     IN /\ HasExtent(bar) /\ bar.left + bar.width = SLIDE_W /\ bar.top + bar.height = SLIDE_H
        /\ HasExtent(txt) /\ txt.top + txt.height = v2_SLIDE_H - Inches(1, 10)
  /\ \E k \in 1..32 : \E j \in 1..Len(docs[OUTPUT].slides[k].shapes) :
       docs[OUTPUT].slides[k].shapes[j].kind = "picture" /\ ~HasExtent(docs[OUTPUT].slides[k].shapes[j])


\* C21: on every slide of a build_presentation deck, no text box added before
\* the citation strip (any text box other than the citation text itself)
\* extends below the top of the citation bar: top + height <= SLIDE_H - 0.55 in.
C21_TextAboveCitationBar ==
  \A d \in Decks : d[1] = "bp" =>
    \A k \in 1..Len(d[2]) : \A j \in 1..Len(d[2][k].shapes) :
      LET sh == d[2][k].shapes[j]
      IN (sh.kind = "textbox" /\ ~IsCitation(sh)
          /\ \E i \in (j + 1)..Len(d[2][k].shapes) : IsCitation(d[2][k].shapes[i]))
         => sh.top + sh.height <= SLIDE_H - Inches(55, 100)


\* The shapes the call at source line l added to a slide.
ShapesAt(slide, l) == SelectSeq(slide.shapes, LAMBDA sh : sh.ln = l)

\* C22: the improvement generate_cnn_vs_swin_chart draws for 'Accuracy'
\* (swin_vals[0] - cnn_vals[0], formatted to a whole number of percentage
\* points) equals the '+29pp' between the hero boxes of slide 18 and the
\* '+29pp' in the citation of slide 17 of create_presentation_v2's deck.
C22_ImprovementMatchesSlides ==
  \A d \in Decks :
    (d[1] = "v2" /\ Len(d[2]) >= 18 /\ generate_cnn_vs_swin_chart.path \in DOMAIN charts
       /\ charts[generate_cnn_vs_swin_chart.path].by = "generate_cnn_vs_swin_chart"
       /\ Len(ShapesAt(d[2][17], 1154)) = 1 /\ Len(ShapesAt(d[2][18], 1186)) = 1) =>
      LET note == charts[generate_cnn_vs_swin_chart.path].notes[1]
      IN /\ note[1] = v2_text[1186][1] /\ note[3] = v2_text[1186][3]
         /\ note[2] * 10 = v2_text[1186][2]
         /\ note[2] * 10 = v2_text[1154][2]


\* The chart file of a generate_charts.py function is on disk as that function
\* rendered it, and slide k of the deck holds a picture of it.
PairedWithChart(slides, k, c) ==
  /\ Len(slides) >= k
  /\ k \in SlidesEmbedding(slides, c.path)
  /\ c.path \in DOMAIN charts
  /\ charts[c.path].by = c.content.by

\* C23: on each slide of build_presentation that pairs a hero statistic with a
\* chart of generate_charts.py, the number in the slide text equals the value
\* in the chart's data: slide 2 '7.2M' and '13.8 million by 2060' are the
\* first and last prevalence values (the last one being the year 2060's),
\* slide 16 '94.5%' and '~68%' are the SVM values for AD-vs-HC and MCI, and
\* slide 23 '-28%' is the difference of the two data-leakage bars (95 - 67).
C23_HeroStatisticsMatchCharts ==
  \A d \in Decks : d[1] = "bp" =>
    /\ PairedWithChart(d[2], 2, chart1_prevalence) =>
         LET data == charts[chart1_prevalence.path].data
             n == Len(data[2])
         IN /\ Len(ShapesAt(d[2][2], 201)) = 1 /\ Len(ShapesAt(d[2][2], 210)) = 1
            /\ bp_text[201][2] = data[2][1] /\ bp_text[201][2] = 72
            /\ bp_text[210][2] = data[2][n] /\ bp_text[210][2] = 138
            /\ data[1][n] = 2060 /\ Len(data[1]) = n
    /\ PairedWithChart(d[2], 16, chart2_ml_comparison) =>
         LET svm == charts[chart2_ml_comparison.path].data[1]
         IN /\ Len(ShapesAt(d[2][16], 746)) = 1 /\ Len(ShapesAt(d[2][16], 755)) = 1
            /\ bp_text[746][2] = svm[1] /\ bp_text[746][2] = 945
            /\ bp_text[755][2] = svm[2] /\ bp_text[755][2] = 680
    /\ PairedWithChart(d[2], 23, chart4_data_leakage) =>
         LET values == charts[chart4_data_leakage.path].data[1]
         IN /\ Len(ShapesAt(d[2][23], 1020)) = 1
            /\ bp_text[1020][1] = "-"
            /\ bp_text[1020][2] = values[1] - values[2]
            /\ values = <<950, 670>>
\* C23 witness: build_presentation has saved its deck after a run of
\* generate_charts.py, with the three charts embedded next to their hero
\* statistics on slides 2, 16 and 23.
C23_Witness ==
  /\ script = "bp" /\ status = "done" /\ prev = "gc"
  /\ PairedWithChart(docs[OUTPUT].slides, 2, chart1_prevalence)
  /\ PairedWithChart(docs[OUTPUT].slides, 16, chart2_ml_comparison)
  /\ PairedWithChart(docs[OUTPUT].slides, 23, chart4_data_leakage)
  /\ Len(ShapesAt(docs[OUTPUT].slides[23], 1020)) = 1


\* The data values of a chart file, whatever their series.
BarValues(file) == UNION {{file.data[i][j] : j \in 1..Len(file.data[i])} : i \in 1..Len(file.data)}
\* The chart functions that draw a gap / drop arrow between two bars.
ArrowCharts ==
  {chart2_ml_comparison, chart4_data_leakage, generate_classical_ml_chart, generate_leakage_chart}
Abs(x) == IF x < 0 THEN 0 - x ELSE x

\* C24: in every chart that draws a gap / drop arrow between two bars, the y
\* values of the arrow's two endpoints are data values of the chart (the bars
\* it compares) and the gap text is their difference rounded to a whole number
\* (within half a unit of it).
C24_ArrowMatchesBars ==
  \A c \in ArrowCharts :
    (c.path \in DOMAIN charts /\ charts[c.path].by = c.content.by) =>
      LET file == charts[c.path]
      IN /\ Len(file.arrow) = 2
         /\ file.arrow[1] \in BarValues(file) /\ file.arrow[2] \in BarValues(file)
         /\ Len(file.notes) = 1
         /\ Abs(file.notes[1][2] * 10 - Abs(file.arrow[1] - file.arrow[2])) <= 5


RECURSIVE TrapezoidSum(_, _, _)
\* np.trapz over the sample points from index i on, times 2: the sum of
\* (x[i+1] - x[i]) * (y[i] + y[i+1]).  With x and y in hundredths the area is
\* TrapezoidSum / 20000.
TrapezoidSum(x, y, i) ==
  IF i >= Len(x) THEN 0
  ELSE (x[i + 1] - x[i]) * (y[i] + y[i + 1]) + TrapezoidSum(x, y, i + 1)
\* An area given as s / 20000, rounded to two decimals, in hundredths (no tie
\* occurs unless s is an odd multiple of 100).
RoundedArea(s) == (s + 100) \div 200

\* C25: the 'Best Model' curve of chart3_roc_curve has the area its legend
\* states: the trapezoidal area under the polyline through the (fpr_good,
\* tpr_good) points, rounded to two decimals, is the legend's 0.93.
C25_LegendStatesArea ==
  (chart3_roc_curve.path \in DOMAIN charts
     /\ charts[chart3_roc_curve.path].by = "chart3_roc_curve") =>
    LET file == charts[chart3_roc_curve.path]
        area == RoundedArea(TrapezoidSum(file.data[1], file.data[2], 1))
    IN /\ file.notes[2][2] = 93
       /\ area = file.notes[2][2]

====
